---- MODULE Spec2Model ----
(***************************************************************************)
(* SO(3) ball model, loop generation, the 4*pi contraction and the lift to *)
(* SU(2) of villavics/so3-visualizer (src/math/vec3.ts, quaternion.ts,     *)
(* so3.ts, su2.ts, loops.ts).                                              *)
(*                                                                         *)
(* NUMBERS.  The code computes in IEEE doubles.  The model computes in     *)
(* exact fixed-point arithmetic: a real x is the integer x*ONE, and angles *)
(* and ball radii are measured in half-turns, so that the code's PI is the *)
(* fixed-point number 1 (PI == ONE).  ONE is chosen so that every value    *)
(* the modelled calls produce (i/N, (1-s)*4*PI*t, axis*theta, theta/2) is  *)
(* on the grid: no rounding happens (the invariant GridExact checks it).   *)
(* EPSILON (1e-10) is far below the grid step, so for a grid value x,      *)
(* "x < EPSILON" is "x <= 0": EPSILON is one grid step.                    *)
(*                                                                         *)
(* QUATERNIONS.  Every quaternion the modelled calls build lies on the     *)
(* one-parameter subgroup of one rotation axis: q = (cos h, sin h * n).    *)
(* The model keeps q as [half |-> h, axis |-> n] with h an exact angle     *)
(* modulo 2*PI, so the sign of w, the sign of a dot product and component  *)
(* equality are decided exactly.                                           *)
(*                                                                         *)
(* TIES.  Where an exact value sits on a comparison's threshold (a dot     *)
(* product of exactly 0, a step of exactly PI, an angle of exactly PI) the *)
(* code's doubles may round to either side.  The model decides a tie by    *)
(* the exact value; a formula that covers a tie says so in its comment.    *)
(***************************************************************************)
EXTENDS Integers, Sequences, FiniteSets

\* ------------------------------------------------------------------ bounds
MaxN == 6           \* sample counts numSamples range over 1..MaxN
SDen == 4           \* contraction parameters s range over k/SDen, k in 0..SDen
MaxHalfTurns == 6   \* totalAngle ranges over m*PI, m in -MaxHalfTurns..MaxHalfTurns
MaxLen == 2         \* longest hand-made ball path given to liftPath
MaxDense == 30      \* largest sample count of the densely sampled loops

\* The rotation axes requests are made with (integer coordinates; the zero
\* axis and a non-unit axis included).  Every one has an integer length.
Axes == { [x |-> 1, y |-> 0, z |-> 0], [x |-> 0, y |-> 0, z |-> 3],
          [x |-> 1, y |-> 2, z |-> 2], [x |-> -2, y |-> 1, z |-> -2],
          [x |-> 0, y |-> 0, z |-> 0] }

\* ------------------------------------------------------- the number grid
RECURSIVE GCD(_, _)
GCD(a, b) == IF b = 0 THEN a ELSE GCD(b, a % b)

LCM(a, b) == (a * b) \div GCD(a, b)

RECURSIVE LcmUpTo(_)
LcmUpTo(n) == IF n <= 1 THEN 1 ELSE LCM(n, LcmUpTo(n - 1))

Abs(x) == IF x < 0 THEN -x ELSE x

\* floor(sqrt(n)) by Newton's iteration
RECURSIVE IsqrtIter(_, _)
IsqrtIter(n, x) ==
  LET y == (x + n \div x) \div 2
  IN  IF y >= x THEN x ELSE IsqrtIter(n, y)

Isqrt(n) == IF n <= 0 THEN 0 ELSE IsqrtIter(n, n)

\* ------------------------------------------------------------- vec3.ts
vec3(x, y, z) == [x |-> x, y |-> y, z |-> z]

vec3Norm(v) == Isqrt(v.x * v.x + v.y * v.y + v.z * v.z)

RECURSIVE LcmOfSet(_)
LcmOfSet(S) ==
  IF S = {} THEN 1
  ELSE LET e == CHOOSE e \in S : TRUE IN LCM(e, LcmOfSet(S \ {e}))

\* the least common multiple of the lengths of the non-zero axes
AxisScale == LcmOfSet({ vec3Norm(a) : a \in Axes } \ {0})

\* The fixed-point unit: divisible by every sample count, by SDen, by the axis
\* lengths and by 2 (half angles).
ONE == 2 * SDen * LcmUpTo(MaxN) * AxisScale

\* fixed-point product and quotient of two fixed-point numbers
Mul(a, b) == (a * b) \div ONE
Div(a, b) == (a * ONE) \div b

\* JavaScript's % : the remainder takes the sign of the dividend
Rem(a, b) == IF a >= 0 THEN a % b ELSE -((-a) % b)

\* one grid step: for a grid value x, x < EPSILON iff x <= 0
EPSILON == 1
PI == ONE

\* mutant: the fallback axis for a zero vector is (1, 0, 0)
vec3Normalize_FallbackX(v) ==
  IF vec3Norm(v) < EPSILON THEN vec3(ONE, 0, 0)
  ELSE vec3(Div(v.x, vec3Norm(v)), Div(v.y, vec3Norm(v)), Div(v.z, vec3Norm(v)))

vec3Normalize(v) ==
  LET n == vec3Norm(v)
  IN  IF n < EPSILON THEN vec3(0, 0, ONE)
      ELSE vec3(Div(v.x, n), Div(v.y, n), Div(v.z, n))

vec3Scale(v, s) == vec3(Mul(v.x, s), Mul(v.y, s), Mul(v.z, s))

vec3Negate(v) == vec3(-v.x, -v.y, -v.z)

\* --------------------------------------------------------- quaternion.ts
\* A quaternion (w, x, y, z) = (cos half, sin half * axis), half in [0, 2*PI).
Quat(half, axis) == [half |-> half % (2 * PI), axis |-> axis]

\* the sign of cos(a) and of sin(a), a an angle on the grid
CosSgn(a) ==
  LET h == a % (2 * PI)
  IN  IF 2 * h = PI \/ 2 * h = 3 * PI THEN 0
      ELSE IF 2 * h < PI \/ 2 * h > 3 * PI THEN 1 ELSE -1

SinSgn(a) ==
  LET h == a % (2 * PI)
  IN  IF h = 0 \/ h = PI THEN 0 ELSE IF h < PI THEN 1 ELSE -1

\* the sign of the first non-zero coordinate of v, in x, y, z order
Orientation(v) ==
  IF v.x # 0 THEN (IF v.x > 0 THEN 1 ELSE -1)
  ELSE IF v.y # 0 THEN (IF v.y > 0 THEN 1 ELSE -1)
  ELSE IF v.z # 0 THEN (IF v.z > 0 THEN 1 ELSE -1)
  ELSE 0

\* The components of q in a form that is equal for equal components: the
\* vector part of (cos h, sin h * n) is zero when sin h = 0, and
\* (cos h, sin h * (-n)) = (cos(-h), sin(-h) * n).
Components(q) ==
  IF SinSgn(q.half) = 0 THEN [half |-> q.half, axis |-> vec3(0, 0, 0)]
  ELSE IF Orientation(q.axis) < 0
       THEN [half |-> (2 * PI - q.half) % (2 * PI), axis |-> vec3Negate(q.axis)]
       ELSE q

identity == Quat(0, vec3(0, 0, 0))

\* mutant: the quaternion is built from the whole angle, not from its half
fromAxisAngle_WholeAngle(axis, angle) == Quat(angle, vec3Normalize(axis))

fromAxisAngle(axis, angle) ==
  LET n == vec3Normalize(axis)
      halfAngle == angle \div 2
  IN  Quat(halfAngle, n)

\* mutant: the norm of the ball point is taken as the half angle
fromSO3Point_NormAsHalf(v) ==
  IF vec3Norm(v) < EPSILON THEN identity
  ELSE Quat(vec3Norm(v), vec3(Div(v.x, vec3Norm(v)), Div(v.y, vec3Norm(v)),
                              Div(v.z, vec3Norm(v))))

\* vec3Scale(v, 1 / theta) is computed as v / theta, coordinate by coordinate:
\* 1 / theta alone is not on the grid, the quotient is.
fromSO3Point(v) ==
  LET theta == vec3Norm(v)
  IN  IF theta < EPSILON THEN identity
      ELSE LET axis == vec3(Div(v.x, theta), Div(v.y, theta), Div(v.z, theta))
           IN  fromAxisAngle(axis, theta)

\* mutant: only w changes sign: (-cos h, sin h n) = (cos(PI - h), sin(PI - h) n)
negate_OnlyW(q) == Quat(3 * PI - q.half, q.axis)

negate(q) == Quat(q.half + PI, q.axis)

\* the sign of q.w = cos(half)
w(q) == CosSgn(q.half)

\* The sign of the dot product of two quaternions of one axis line:
\* cos a cos b + sin a sin b (n.n) = cos(a - b).
dot(a, b) ==
  LET ca == Components(a)
      cb == Components(b)
  IN  CASE ca.axis = cb.axis \/ SinSgn(ca.half) = 0 \/ SinSgn(cb.half) = 0
             -> CosSgn(ca.half - cb.half + 2 * PI)

\* |a.w - b.w| < eps and the same for x, y, z.  eps (1e-4, 1e-6) is below the
\* distance of two distinct grid quaternions, so this is component equality.
approxEqual(a, b) == Components(a) = Components(b)

\* (w, -x, -y, -z): cos(-h) = cos h, sin(-h) = -sin h
conjugate(q) == Quat(2 * PI - q.half, q.axis)

\* normSq() of a unit quaternion is 1: the inverse is the conjugate
inverse(q) == conjugate(q)

\* mutant: the right factor is conjugated, the half angles subtract
multiply_ConjugateRight(a, b) ==
  LET ca == Components(a)
      cb == Components(b)
  IN  CASE ca.axis = cb.axis \/ SinSgn(ca.half) = 0 \/ SinSgn(cb.half) = 0
             -> Quat(ca.half - cb.half + 2 * PI,
                     IF SinSgn(ca.half) = 0 THEN cb.axis ELSE ca.axis)

\* The product of two quaternions of one axis line: the half angles add
\* ((cos a + sin a n)(cos b + sin b n) = cos(a+b) + sin(a+b) n).
multiply(a, b) ==
  LET ca == Components(a)
      cb == Components(b)
  IN  CASE ca.axis = cb.axis \/ SinSgn(ca.half) = 0 \/ SinSgn(cb.half) = 0
             -> Quat(ca.half + cb.half,
                     IF SinSgn(ca.half) = 0 THEN cb.axis ELSE ca.axis)

\* Axis and angle of q.  normalize() leaves a unit quaternion as it is.  After
\* the choice of the representative with w >= 0 the half angle h is in
\* [0, PI/2] or [3*PI/2, 2*PI): 2*acos(cos h) is 2*h or 2*(2*PI - h),
\* sinHalf = sqrt(1 - w*w) is |sin h|, kept as 0 or one grid step (|sin h| of
\* a grid angle is 0 or far above EPSILON), and (x, y, z)/sinHalf is
\* sign(sin h) * n.
toAxisAngle(this) ==
  LET q == IF w(this) < 0 THEN negate(this) ELSE this
      h == q.half
      angle == IF 2 * h <= PI THEN 2 * h ELSE 2 * (2 * PI - h)
      sinHalf == Abs(SinSgn(h))
  IN  IF sinHalf < EPSILON THEN [axis |-> vec3(0, 0, ONE), angle |-> 0]
      ELSE [axis |-> IF SinSgn(h) > 0 THEN q.axis ELSE vec3Negate(q.axis),
            angle |-> angle]

toSO3Point(q) ==
  LET aa == toAxisAngle(q)
  IN  vec3Scale(aa.axis, aa.angle)

\* mutant: equality in SU(2), q and -q are not identified
Quaternion_sameRotation_SU2(a, b) == approxEqual(a, b)

\* Quaternion.sameRotation: equal up to sign
Quaternion_sameRotation(a, b) == approxEqual(a, b) \/ approxEqual(a, negate(b))

\* The point at the fraction t of the arc from u to v on the unit circle of
\* one axis line, for u and v less than half a circle apart: the half angle
\* moves linearly.  This is (sin((1-t)*omega) u + sin(t*omega) v) / sin(omega)
\* for the angle omega between u and v.
Arc(u, v, t) ==
  LET cu == Components(u)
      cv == Components(v)
      r == (cv.half - cu.half + 2 * PI) % (2 * PI)
      d == IF r > PI THEN r - 2 * PI ELSE r
  IN  CASE cu.axis = cv.axis \/ SinSgn(cu.half) = 0 \/ SinSgn(cv.half) = 0
             -> Quat(cu.half + Mul(d, t) + 2 * PI,
                     IF SinSgn(cu.half) = 0 THEN cv.axis ELSE cu.axis)

\* "dot > 1 - EPSILON": two grid quaternions that close have equal components
slerp(a, b, t) ==
  LET bAdj == IF dot(a, b) < 0 THEN negate(b) ELSE b
  IN  IF approxEqual(a, bAdj) THEN a
      ELSE Arc(a, bAdj, t)

\* The branches of slerpLong, at the fractions t = 0, 1/2 and 1 (elsewhere
\* the long-way branch leaves the grid).  Linear branch (|dot| > 1 - EPSILON,
\* a = b or a = -b): (a + (b - a)*t).normalize(), which for a = -b is
\* (1 - 2t)*a, and at t = 1/2 the zero quaternion, normalized to identity.
\* Long-way branch (dot < 0): sa*a - sb*b with sa = sin((1-t)*(PI-omega)) /
\* sin(PI-omega) and sb = sin(t*(PI-omega)) / sin(PI-omega): a at t = 0, -b
\* at t = 1, and at t = 1/2 (sa = sb) the normalized a - b, the middle of the
\* arc from a to -b.
slerpLong(a, b, t) ==
  IF approxEqual(a, b) THEN a
  ELSE IF approxEqual(a, negate(b))
       THEN (IF 2 * t < ONE THEN a ELSE IF 2 * t = ONE THEN identity ELSE b)
  ELSE IF dot(a, b) < 0
       THEN CASE t = 0 -> a
              [] t = ONE -> negate(b)
              [] 2 * t = ONE -> Arc(a, negate(b), t)
  ELSE Arc(a, b, t)

\* ----------------------------------------------------------------- so3.ts
\* the default tolerance 1e-4 of isOnBoundary, isIdentity and sameRotation:
\* below the grid step, so one grid step
DefaultEpsilon == 1

\* mutant: the wrapped branch keeps the axis
axisAngleToPoint_NoFlip(axis, angle) ==
  LET r == Rem(angle, 2 * PI)
      theta == IF r < 0 THEN r + 2 * PI ELSE r
  IN  IF Abs(angle) < EPSILON THEN vec3(0, 0, 0)
      ELSE IF theta <= PI THEN vec3Scale(vec3Normalize(axis), theta)
      ELSE vec3Scale(vec3Normalize(axis), 2 * PI - theta)

axisAngleToPoint(axis, angle) ==
  IF Abs(angle) < EPSILON THEN vec3(0, 0, 0)
  ELSE LET n == vec3Normalize(axis)
           r == Rem(angle, 2 * PI)
           theta == IF r < 0 THEN r + 2 * PI ELSE r
       IN  IF theta <= PI THEN vec3Scale(n, theta)
           ELSE vec3Scale(vec3Negate(n), 2 * PI - theta)

\* vec3Scale(p, 1 / theta) is computed as p / theta, coordinate by coordinate
pointToAxisAngle(p) ==
  LET theta == vec3Norm(p)
  IN  IF theta < EPSILON THEN [axis |-> vec3(0, 0, ONE), angle |-> 0]
      ELSE [axis |-> vec3(Div(p.x, theta), Div(p.y, theta), Div(p.z, theta)),
            angle |-> theta]

isOnBoundary(p) == Abs(vec3Norm(p) - PI) < DefaultEpsilon

isIdentity(p) == vec3Norm(p) < DefaultEpsilon

antipodalPartner(p) == vec3Negate(p)

\* mutant: only the x coordinate is looked at
canonicalize_OnlyX(p) ==
  IF ~isOnBoundary(p) THEN p
  ELSE IF Abs(p.x) > EPSILON THEN (IF p.x > 0 THEN p ELSE vec3Negate(p))
  ELSE p

canonicalize(p) ==
  IF ~isOnBoundary(p) THEN p
  ELSE IF Abs(p.x) > EPSILON THEN (IF p.x > 0 THEN p ELSE vec3Negate(p))
  ELSE IF Abs(p.y) > EPSILON THEN (IF p.y > 0 THEN p ELSE vec3Negate(p))
  ELSE IF Abs(p.z) > EPSILON THEN (IF p.z > 0 THEN p ELSE vec3Negate(p))
  ELSE p

compose(a, b) ==
  LET qa == fromSO3Point(a)
      qb == fromSO3Point(b)
  IN  toSO3Point(multiply(qa, qb))

geodesicDistance(a, b) ==
  LET qa == fromSO3Point(a)
      qb == fromSO3Point(b)
      qDiff == multiply(inverse(qa), qb)
  IN  toAxisAngle(qDiff).angle

sameRotation(a, b) ==
  LET qa == fromSO3Point(a)
      qb == fromSO3Point(b)
  IN  Quaternion_sameRotation(qa, qb)

\* --------------------------------------------------------------- loops.ts
\* mutant: the progress divides by the number of points, t never reaches 1
Progress_PerPoint(i, numSamples) == (i * ONE) \div (numSamples + 1)

\* i / numSamples, the progress t of sample i
Progress(i, numSamples) == (i * ONE) \div numSamples

\* mutant: the branch for (PI, 2*PI) forgets to flip the axis
angleToBallPoint_NoFlip(axis, angle) ==
  LET r == Rem(angle, 2 * PI)
      theta == IF r < 0 THEN r + 2 * PI ELSE r
  IN  IF theta < EPSILON \/ Abs(theta - 2 * PI) < EPSILON THEN vec3(0, 0, 0)
      ELSE IF theta <= PI THEN vec3Scale(axis, theta)
      ELSE vec3Scale(axis, 2 * PI - theta)

\* mutant: a negative remainder is not brought back into [0, 2*PI)
angleToBallPoint_NegativeRemainder(axis, angle) ==
  LET theta == Rem(angle, 2 * PI)
  IN  IF theta < EPSILON /\ theta > -EPSILON THEN vec3(0, 0, 0)
      ELSE IF theta <= PI THEN vec3Scale(axis, theta)
      ELSE vec3Scale(vec3Negate(axis), 2 * PI - theta)

angleToBallPoint(axis, angle) ==
  LET r == Rem(angle, 2 * PI)
      theta == IF r < 0 THEN r + 2 * PI ELSE r
  IN  IF theta < EPSILON \/ Abs(theta - 2 * PI) < EPSILON THEN vec3(0, 0, 0)
      ELSE IF theta <= PI THEN vec3Scale(axis, theta)
      ELSE vec3Scale(vec3Negate(axis), 2 * PI - theta)

\* the Euclidean distance of two ball points
Distance(prev, curr) ==
  vec3Norm(vec3(curr.x - prev.x, curr.y - prev.y, curr.z - prev.z))

\* mutant: the threshold is the ball's diameter 2*PI instead of PI
RECURSIVE DetectJumps_Diameter(_, _)
DetectJumps_Diameter(points, i) ==
  IF i >= Len(points) THEN << >>
  ELSE IF vec3Norm(vec3(points[i + 1].x - points[i].x, points[i + 1].y - points[i].y,
                        points[i + 1].z - points[i].z)) > 2 * PI
       THEN << i >> \o DetectJumps_Diameter(points, i + 1)
       ELSE DetectJumps_Diameter(points, i + 1)

\* mutant: the index of the sample before the jump is recorded
RECURSIVE DetectJumps_Before(_, _)
DetectJumps_Before(points, i) ==
  IF i >= Len(points) THEN << >>
  ELSE IF Distance(points[i], points[i + 1]) > PI
       THEN << i - 1 >> \o DetectJumps_Before(points, i + 1)
       ELSE DetectJumps_Before(points, i + 1)

\* The jump detection loop from index i on.  points is 1-based here:
\* the code's points[i] is points[i + 1].
RECURSIVE DetectJumps(_, _)
DetectJumps(points, i) ==
  IF i >= Len(points) THEN << >>
  ELSE IF Distance(points[i], points[i + 1]) > PI
       THEN << i >> \o DetectJumps(points, i + 1)
       ELSE DetectJumps(points, i + 1)

generateLoop(axis, totalAngle, numSamples) ==
  LET n == vec3Normalize(axis)
      currentAngle(i) == Mul(Progress(i, numSamples), totalAngle)
      points == [j \in 1..(numSamples + 1) |-> angleToBallPoint(n, currentAngle(j - 1))]
  IN  [points |-> points,
       quaternions |-> [j \in 1..(numSamples + 1) |-> fromAxisAngle(n, currentAngle(j - 1))],
       jumpIndices |-> DetectJumps(points, 1),
       totalAngle |-> totalAngle,
       numSamples |-> numSamples]

\* mutant: the axis is used as given, without vec3Normalize
getLoopPoint_RawAxis(axis, totalAngle, t) ==
  angleToBallPoint(vec3(axis.x * ONE, axis.y * ONE, axis.z * ONE), Mul(t, totalAngle))

getLoopPoint(axis, totalAngle, t) ==
  LET n == vec3Normalize(axis)
      currentAngle == Mul(t, totalAngle)
  IN  angleToBallPoint(n, currentAngle)

getLoopQuaternion(axis, totalAngle, t) ==
  LET n == vec3Normalize(axis)
      currentAngle == Mul(t, totalAngle)
  IN  fromAxisAngle(n, currentAngle)

\* mutant: the wrapped branch keeps the axis
angleToBallPointGeneral_NoFlip(axis, angle) ==
  IF angle < EPSILON THEN vec3(0, 0, 0)
  ELSE LET theta == Rem(angle, 2 * PI)
       IN  IF theta < EPSILON \/ Abs(theta - 2 * PI) < EPSILON THEN vec3(0, 0, 0)
           ELSE IF theta <= PI THEN vec3Scale(axis, theta)
           ELSE vec3Scale(axis, 2 * PI - theta)

angleToBallPointGeneral(axis, angle) ==
  IF angle < EPSILON THEN vec3(0, 0, 0)
  ELSE LET theta == Rem(angle, 2 * PI)
       IN  IF theta < EPSILON \/ Abs(theta - 2 * PI) < EPSILON THEN vec3(0, 0, 0)
           ELSE IF theta <= PI THEN vec3Scale(axis, theta)
           ELSE vec3Scale(vec3Negate(axis), 2 * PI - theta)

\* mutant: the path covers half a turn, angle = t * PI
generateDiameterPath_HalfTurn(axis, numSamples) ==
  [j \in 1..(numSamples + 1) |->
     angleToBallPointGeneral(vec3Normalize(axis), Mul(Progress(j - 1, numSamples), PI))]

generateDiameterPath(axis, numSamples) ==
  LET n == vec3Normalize(axis)
      angle(i) == Mul(Progress(i, numSamples) * 2, PI)
  IN  [j \in 1..(numSamples + 1) |-> angleToBallPointGeneral(n, angle(j - 1))]

\* mutant: the constant-speed scaling (1-s)*4*PI*t on the whole of [0, 1]
ContractedAngle_OneWay(s, t) == Mul(Mul((ONE - s) * 4, PI), t)

\* mutant: s in the place of 1 - s
ContractedAngle_Swapped(s, t) ==
  IF 2 * t <= ONE
  THEN Mul(Mul(s * 4, PI), t)
  ELSE Mul(Mul(s * 4, PI), ONE - t)

\* mutant: the excursion reaches (1-s)*4*PI instead of (1-s)*2*PI
ContractedAngle_Double(s, t) ==
  IF 2 * t <= ONE
  THEN Mul(Mul((ONE - s) * 8, PI), t)
  ELSE Mul(Mul((ONE - s) * 8, PI), ONE - t)

\* mutant: the return branch on the whole of [0, 1]
ContractedAngle_ReturnOnly(s, t) == Mul(Mul((ONE - s) * 4, PI), ONE - t)

\* the angle of sample t of the contraction at parameter s
ContractedAngle(s, t) ==
  IF 2 * t <= ONE
  THEN Mul(Mul((ONE - s) * 4, PI), t)
  ELSE Mul(Mul((ONE - s) * 4, PI), ONE - t)

contractedLoopPoints(axis, contractionParam, numSamples) ==
  LET n == vec3Normalize(axis)
      s == contractionParam
  IN  [j \in 1..(numSamples + 1) |->
         angleToBallPointGeneral(n, ContractedAngle(s, Progress(j - 1, numSamples)))]

\* NaN, the value of 0/0: an integer that no finite number of the model takes
NaN == -(ONE * ONE)

\* i / (numStages - 1) in IEEE arithmetic: 0/0 is NaN (i < numStages, so the
\* divisor is 0 only for i = 0)
StageParameter(i, numStages) ==
  IF numStages - 1 = 0 THEN NaN ELSE (i * ONE) \div (numStages - 1)

\* contractedLoopPoints(axis, NaN, numSamples): currentAngle = (1 - NaN)*4*PI*t
\* is NaN for every t; in angleToBallPointGeneral every comparison with NaN
\* is false, so the last branch vec3Scale(vec3Negate(n), 2*PI - NaN) is
\* taken and every coordinate is NaN.
ContractedLoopPointsAtNaN(numSamples) ==
  [j \in 1..(numSamples + 1) |-> vec3(NaN, NaN, NaN)]

contractionStages(axis, numStages, numSamples) ==
  [k \in 1..numStages |->
     LET s == StageParameter(k - 1, numStages)
     IN  IF s = NaN THEN ContractedLoopPointsAtNaN(numSamples)
         ELSE contractedLoopPoints(axis, s, numSamples)]

\* ----------------------------------------------------------------- su2.ts
\* mutant: the comparison is inverted, the farther candidate is kept
RECURSIVE LiftFrom_FarSheet(_, _, _)
LiftFrom_FarSheet(so3Points, lifted, i) ==
  IF i >= Len(so3Points) THEN lifted
  ELSE LET qi == fromSO3Point(so3Points[i + 1])
           prev == lifted[i]
           chosen == IF dot(qi, prev) > 0 THEN negate(qi) ELSE qi
       IN  LiftFrom_FarSheet(so3Points, Append(lifted, chosen), i + 1)

\* mutant: no sign choice, every point lifts to its w >= 0 representative
RECURSIVE LiftFrom_NoChoice(_, _, _)
LiftFrom_NoChoice(so3Points, lifted, i) ==
  IF i >= Len(so3Points) THEN lifted
  ELSE LiftFrom_NoChoice(so3Points, Append(lifted, fromSO3Point(so3Points[i + 1])), i + 1)

\* the loop body of liftPath for the code's index i (so3Points[i + 1] here)
RECURSIVE LiftFrom(_, _, _)
LiftFrom(so3Points, lifted, i) ==
  IF i >= Len(so3Points) THEN lifted
  ELSE LET qi == fromSO3Point(so3Points[i + 1])
           prev == lifted[i]
           chosen == IF dot(qi, prev) < 0 THEN negate(qi) ELSE qi
       IN  LiftFrom(so3Points, Append(lifted, chosen), i + 1)

liftPath(so3Points) ==
  IF Len(so3Points) = 0 THEN << >>
  ELSE LET q0 == fromSO3Point(so3Points[1])
           q == IF w(q0) < 0 THEN negate(q0) ELSE q0
       IN  LiftFrom(so3Points, << q >>, 1)

\* mutant: the end points are compared as rotations, up to sign
isLiftedPathClosed_UpToSign(path) ==
  IF Len(path) < 2 THEN TRUE
  ELSE Quaternion_sameRotation(path[1], path[Len(path)])

isLiftedPathClosed(path) ==
  IF Len(path) < 2 THEN TRUE
  ELSE approxEqual(path[1], path[Len(path)])

isLiftedPathAntipodal(path) ==
  IF Len(path) < 2 THEN FALSE
  ELSE approxEqual(path[1], negate(path[Len(path)]))

doubleCoverMap(q) == toSO3Point(q)

\* ------------------------------------------------------------- the calls
\* A session holds the request parameters shared by the calls (the axis and
\* the sample count) and the value each call returned last.
VARIABLES
  axis,            \* the requested rotation axis
  numSamples,      \* the requested sample count N
  loop,            \* the LoopPath generateLoop returned, or NoLoop
  contracted,      \* [s, points]: the last contractedLoopPoints result, or NoPoints
  prevContracted,  \* the contractedLoopPoints result before that, or NoPoints
  lift,            \* [of, input, path]: the last liftPath call, or NoLift
  call,            \* [op, ...]: the last call on single ball points, or NoCall
  controller,      \* the AnimationController's fields
  animator,        \* the LoopAnimator's fields
  observed,        \* what an observer of the playback has counted so far
  view             \* the CrossSectionView's comparison disks

vars == << axis, numSamples, loop, contracted, prevContracted, lift, call,
           controller, animator, observed, view >>

\* the state of the animation classes, which no call of the math modules touches
animationVars == << controller, animator, observed, view >>

\* the state of the math sessions, which the animation classes do not touch
sessionVars == << axis, numSamples, loop, contracted, prevContracted, lift, call >>

NoLoop == [numSamples |-> 0]
NoPoints == [s |-> -1]
NoLift == [of |-> "none"]
NoCall == [op |-> "none"]

\* the contraction parameters k/SDen and the total angles m*PI requested
SValues == { (k * ONE) \div SDen : k \in 0..SDen }
TotalAngles == { m * PI : m \in (-MaxHalfTurns)..MaxHalfTurns }

\* hand-made ball paths: up to MaxLen points on the axis line, at radius 0,
\* PI/2 or PI on either side, in any order (no sampling density is kept)
HandPoints(n) == { angleToBallPoint(n, (m * PI) \div 2) : m \in 0..3 }
               \cup { vec3Scale(vec3Negate(n), PI) }
HandPaths(n) == UNION { [1..l -> HandPoints(n)] : l \in 0..MaxLen }

\* ------------------------------------------ animation/LoopAnimator.ts (1)
\* The AnimationController.  Its progress t is counted in steps of
\* 1/ProgressOne (two steps per sample of the animated loop), its speed in
\* steps of 0.05 revolutions per second, so that a frame time dt is counted
\* in ticks of 20/ProgressOne seconds and dt * speed is a number of progress
\* steps.  The contraction parameter is counted in hundredths.
LoopSamples ==
  CHOOSE n \in { m \in 1..MaxDense : ONE % (2 * AxisScale * m) = 0 } :
    \A m \in { k \in 1..MaxDense : ONE % (2 * AxisScale * k) = 0 } : m <= n

ProgressOne == 2 * LoopSamples

MinSpeed == 1
DefaultSpeed == 6
MaxSpeed == 40

ParamOne == 100
ContractionStep == 8

\* Math.max(lo, Math.min(hi, x))
Clamp(lo, hi, x) ==
  LET m == IF x < hi THEN x ELSE hi
  IN  IF m > lo THEN m ELSE lo

AnimationController ==
  [ playing |-> FALSE, speed |-> DefaultSpeed, progress |-> 0, mode |-> "loop",
    contractionParam |-> 0, contracting |-> FALSE ]

play(c) == [c EXCEPT !.playing = TRUE]

pause(c) == [c EXCEPT !.playing = FALSE]

toggle(c) == [c EXCEPT !.playing = ~c.playing]

AnimationController_reset(c) ==
  [c EXCEPT !.progress = 0, !.contractionParam = 0, !.contracting = FALSE]

setSpeed(c, speed) == [c EXCEPT !.speed = Clamp(MinSpeed, MaxSpeed, speed)]

setProgress(c, t) == [c EXCEPT !.progress = Clamp(0, ProgressOne, t)]

setMode(c, mode) == AnimationController_reset([c EXCEPT !.mode = mode])

setContractionParam(c, s) ==
  [c EXCEPT !.contractionParam = Clamp(0, ParamOne, s)]

startContraction(c) ==
  [c EXCEPT !.contracting = TRUE, !.contractionParam = 0]

\* the loop cycle completes in this update
LoopCompletes(c, dt) == c.playing /\ c.progress + dt * c.speed >= ProgressOne

\* mutant: the contraction step is not stopped at ParamOne
AdvanceContraction_NoStop(c) ==
  [c EXCEPT !.contractionParam = c.contractionParam + ContractionStep]

\* the contraction step of a completed loop cycle adds ContractionStep and
\* stops at ParamOne
AdvanceContraction(c) ==
  LET s == c.contractionParam + ContractionStep
  IN  IF s >= ParamOne
        THEN [c EXCEPT !.contractionParam = ParamOne, !.contracting = FALSE]
        ELSE [c EXCEPT !.contractionParam = s]

AnimationController_update(c, dt) ==
  IF ~c.playing THEN c
  ELSE IF LoopCompletes(c, dt)
    THEN LET wrapped == [c EXCEPT !.progress = 0]
         IN  IF c.mode = "contraction" /\ c.contracting
               THEN AdvanceContraction(wrapped)
               ELSE wrapped
    ELSE [c EXCEPT !.progress = c.progress + dt * c.speed]

\* What an observer has counted: auto is true from a click on "start
\* contraction" for as long as nothing but update (and play, setSpeed, which
\* change nothing update did) is called; cycles counts the loop cycles
\* completed since that click, up to MaxCycles; shown lists the jump indices
\* given to showAntipodalJump during the current pass of the progress from 0
\* to 1, lastPass the list of the pass before, passes the passes completed
\* since the loop was set or reset, up to MaxPasses; step is the change the
\* last update made to contractionParam; started is true right after the
\* click on "start contraction"; presses counts the mouse presses on the
\* comparison disks, up to MaxPresses.
MaxCycles == 15
MaxPasses == 2
MaxDt == 2
MaxPresses == 3

NothingObserved ==
  [ auto |-> FALSE, started |-> FALSE, cycles |-> 0, step |-> 0,
    shown |-> << >>, lastPass |-> << >>, passes |-> 0, presses |-> 0 ]

Interrupted(o) ==
  [o EXCEPT !.auto = FALSE, !.started = FALSE, !.cycles = 0, !.step = 0]

\* ------------------------------------------ animation/LoopAnimator.ts (2)
\* The LoopAnimator.  setLoop samples the loop at 300 points; the model
\* samples it at LoopSamples points, the densest sampling on the grid.
LoopAnimator ==
  [ loop |-> NoLoop, axis |-> vec3(ONE, 0, 0), totalAngle |-> 2 * PI,
    lastJumpIndex |-> -1 ]

setLoop(a, ax, totalAngle) ==
  [ loop |-> generateLoop(vec3Normalize(ax), totalAngle, LoopSamples),
    axis |-> vec3Normalize(ax), totalAngle |-> totalAngle,
    lastJumpIndex |-> -1 ]

\* The loop over loop.jumpIndices from its k-th entry on, at sample index idx
\* and with lastJumpIndex = last: the jump indices given to
\* showAntipodalJump, in order.
RECURSIVE ShowAntipodalJumps(_, _, _, _)
ShowAntipodalJumps(jumpIndices, idx, last, k) ==
  IF k > Len(jumpIndices) THEN << >>
  ELSE LET jumpIdx == jumpIndices[k]
       IN  IF idx >= jumpIdx - 1 /\ idx <= jumpIdx + 1 /\ last # jumpIdx
             THEN << jumpIdx >> \o ShowAntipodalJumps(jumpIndices, idx, jumpIdx, k + 1)
             ELSE ShowAntipodalJumps(jumpIndices, idx, last, k + 1)

\* Math.floor(t * numSamples)
SampleIndex(a, t) == (t * a.loop.numSamples) \div ProgressOne

\* the jump indices update(t) gives to showAntipodalJump
JumpsShown(a, t) ==
  IF a.loop = NoLoop THEN << >>
  ELSE ShowAntipodalJumps(a.loop.jumpIndices, SampleIndex(a, t), a.lastJumpIndex, 1)

LoopAnimator_update(a, t) ==
  LET shown == JumpsShown(a, t)
  IN  IF shown = << >> THEN a
      ELSE [a EXCEPT !.lastJumpIndex = shown[Len(shown)]]

LoopAnimator_reset(a) == [a EXCEPT !.lastJumpIndex = -1]

\* ------------------------------------------------ CrossSectionView (part_004)
\* The two interactive disks of the comparison mode.  Disk coordinates are
\* counted in steps of pi/ViewPI, so that the radii 0.99 pi, 0.95 pi and
\* 0.88 pi of the handlers are whole numbers; the mouse positions are chosen
\* on directions with whole-numbered norms, so that scaling a point to a
\* given radius is exact.  The contraction scale is counted in thousandths;
\* the code shrinks it by 0.012 per animation frame (84 frames), the model
\* by ScaleStep, so that a contraction takes ContractFrames frames.
\* highlightedAntipodal, contractAnimId and the disk geometry, which only
\* the drawing reads, are left out; an animation frame is pending exactly
\* while contractAnimating is true.
ViewPI == 500
ScaleOne == 1000
ContractFrames == 4
ScaleStep == ScaleOne \div ContractFrames
HitRadius == 70
JunctionMinRadius == 1
CrossEps == 19
BezierSamples == 4

Pt(x, y) == [x |-> x, y |-> y]

PtNegate(p) == Pt(-p.x, -p.y)

PtNorm(p) == Isqrt(p.x * p.x + p.y * p.y)

\* the point p moved along its ray to the radius num/den * pi, for r = |p| > 0
PtToRadius(p, r, num, den) ==
  Pt((p.x * num * ViewPI) \div (den * r), (p.y * num * ViewPI) \div (den * r))

BezierArc(p0, p1, p2) == [p0 |-> p0, p1 |-> p1, p2 |-> p2]

\* the antipodal mirror of a list of arcs
MirrorArcs(arcs) ==
  [i \in DOMAIN arcs |->
     BezierArc(PtNegate(arcs[i].p0), PtNegate(arcs[i].p1), PtNegate(arcs[i].p2))]

createDiskState(is4Pi) ==
  LET upperBeziers ==
        IF is4Pi
          THEN << BezierArc(Pt(0, 0), Pt((3 * ViewPI) \div 10, (55 * ViewPI) \div 100),
                            Pt(ViewPI, 0)),
                  BezierArc(Pt(-ViewPI, 0),
                            Pt(-((3 * ViewPI) \div 10), (35 * ViewPI) \div 100), Pt(0, 0)) >>
          ELSE << BezierArc(Pt(0, 0), Pt(ViewPI \div 2, (4 * ViewPI) \div 10),
                            Pt(ViewPI, 0)),
                  BezierArc(Pt(-ViewPI, 0),
                            Pt(-(ViewPI \div 2), (4 * ViewPI) \div 10), Pt(0, 0)) >>
  IN  [ upperBeziers |-> upperBeziers,
        lowerBeziers |-> MirrorArcs(upperBeziers),
        is4Pi |-> is4Pi,
        junctionOnBoundary |-> TRUE,
        dragging |-> FALSE,
        dragArcIdx |-> -1,
        dragPtKey |-> "p1",
        contractAnimating |-> FALSE,
        contractScale |-> ScaleOne,
        savedBeziers |-> << >>,
        contractDone |-> FALSE,
        clickRegions |-> {} ]

\* mutant: the 2 pi disk is given the free junction of the 4 pi disk
updateJunctionFor_Free(state) ==
  LET junc == state.upperBeziers[1].p2
      r == PtNorm(junc)
  IN  IF 100 * r >= 88 * ViewPI
        THEN LET bnd == PtToRadius(junc, r, 1, 1)
             IN  [state EXCEPT !.upperBeziers[1].p2 = bnd,
                               !.upperBeziers[2].p0 = PtNegate(bnd),
                               !.junctionOnBoundary = TRUE]
        ELSE [state EXCEPT !.upperBeziers[2].p0 = junc,
                           !.junctionOnBoundary = FALSE]

\* updateJunctionFor(state); the code's upperBeziers[0] is upperBeziers[1]
updateJunctionFor(state) ==
  IF Len(state.upperBeziers) < 2 THEN state
  ELSE
    LET junc == state.upperBeziers[1].p2
        r == PtNorm(junc)
    IN  IF ~state.is4Pi
          THEN LET bnd == IF r > JunctionMinRadius
                            THEN PtToRadius(junc, r, 1, 1) ELSE Pt(ViewPI, 0)
               IN  [state EXCEPT !.upperBeziers[1].p2 = bnd,
                                 !.upperBeziers[2].p0 = PtNegate(bnd),
                                 !.junctionOnBoundary = TRUE]
          ELSE IF 100 * r >= 88 * ViewPI
            THEN LET bnd == PtToRadius(junc, r, 1, 1)
                 IN  [state EXCEPT !.upperBeziers[1].p2 = bnd,
                                   !.upperBeziers[2].p0 = PtNegate(bnd),
                                   !.junctionOnBoundary = TRUE]
            ELSE [state EXCEPT !.upperBeziers[2].p0 = junc,
                               !.junctionOnBoundary = FALSE]

syncLowerBeziersFor(state) ==
  [state EXCEPT !.lowerBeziers = MirrorArcs(state.upperBeziers)]

\* evalBezier(arc, i / BezierSamples), times BezierSamples^2
EvalBezierScaled(arc, i) ==
  LET u == BezierSamples - i
  IN  Pt(u * u * arc.p0.x + 2 * u * i * arc.p1.x + i * i * arc.p2.x,
         u * u * arc.p0.y + 2 * u * i * arc.p1.y + i * i * arc.p2.y)

\* 'inside', 'outside' or null (the thick ring) for the sample i of an arc;
\* CrossEps is the ring's half-width 0.12 rounded down to the grid
RingState(arc, i) ==
  LET p == EvalBezierScaled(arc, i)
      rr == p.x * p.x + p.y * p.y
      n2 == BezierSamples * BezierSamples
      inner == (ViewPI - CrossEps) * n2
      outer == (ViewPI + CrossEps + 1) * n2
  IN  IF rr < inner * inner THEN "inside"
      ELSE IF rr >= outer * outer THEN "outside"
      ELSE "null"

\* the number of crossings findBoundaryCrossings finds from sample i on,
\* with prevState the last definite state; the samples at the very end of
\* the arc are skipped
RECURSIVE CrossingsFrom(_, _, _)
CrossingsFrom(arc, i, prevState) ==
  IF i > BezierSamples THEN 0
  ELSE LET state == RingState(arc, i)
           found == IF /\ state # "null" /\ prevState # "null" /\ state # prevState
                       /\ i < BezierSamples
                      THEN 1 ELSE 0
       IN  found + CrossingsFrom(arc, i + 1, IF state # "null" THEN state ELSE prevState)

findBoundaryCrossings(arc) == CrossingsFrom(arc, 1, RingState(arc, 0))

RECURSIVE InteriorCrossings(_, _)
InteriorCrossings(arcs, i) ==
  IF i > Len(arcs) THEN 0
  ELSE (findBoundaryCrossings(arcs[i]) \div 2) + InteriorCrossings(arcs, i + 1)

\* countCrossingsFor(state).count
countCrossingsFor(state) ==
  (IF state.junctionOnBoundary THEN (IF state.is4Pi THEN 2 ELSE 1) ELSE 0)
    + InteriorCrossings(state.upperBeziers, 1)
    + (IF state.is4Pi THEN InteriorCrossings(state.lowerBeziers, 1) ELSE 0)

\* drawComparisonHalf(state, ...): the click regions it leaves on the state
drawComparisonHalf(state) ==
  [state EXCEPT !.clickRegions =
     (IF /\ state.is4Pi /\ countCrossingsFor(state) = 0
         /\ ~state.contractDone /\ ~state.contractAnimating
        THEN {"contract"} ELSE {}) \cup {"reset"}]

\* draw() in 'interactive-comparison' mode
draw(v) ==
  [v EXCEPT !.leftDisk = drawComparisonHalf(v.leftDisk),
            !.rightDisk = drawComparisonHalf(v.rightDisk)]

\* the arcs of savedBeziers scaled by s thousandths (rounded to the grid)
ScaleArcs(arcs, s) ==
  LET sc(p) == Pt((p.x * s) \div ScaleOne, (p.y * s) \div ScaleOne)
  IN  [i \in DOMAIN arcs |-> BezierArc(sc(arcs[i].p0), sc(arcs[i].p1), sc(arcs[i].p2))]

contractAnimFrameFor(state) ==
  LET s == state.contractScale - ScaleStep
  IN  IF s <= 0
        THEN syncLowerBeziersFor(
               [state EXCEPT !.contractScale = 0,
                             !.contractAnimating = FALSE,
                             !.contractDone = TRUE,
                             !.upperBeziers = ScaleArcs(state.upperBeziers, 0),
                             !.junctionOnBoundary = FALSE])
        ELSE syncLowerBeziersFor(
               [state EXCEPT !.contractScale = s,
                             !.upperBeziers = ScaleArcs(state.savedBeziers, s),
                             !.junctionOnBoundary = FALSE])

startContractionFor(state) ==
  IF state.contractAnimating \/ state.contractDone THEN state
  ELSE contractAnimFrameFor(
         [state EXCEPT !.savedBeziers = state.upperBeziers,
                       !.contractAnimating = TRUE,
                       !.contractScale = ScaleOne,
                       !.contractDone = FALSE])

\* the control point of the hit test that a press at p grabs, as
\* << dragArcIdx, dragPtKey >>, or << >>: the first of arc0.p1, arc0.p2,
\* arc1.p0 (which grabs arc0.p2) and arc1.p1 within the hit radius
Near(p, q) ==
  (p.x - q.x) * (p.x - q.x) + (p.y - q.y) * (p.y - q.y) < HitRadius * HitRadius

HitTest(state, p) ==
  IF Near(p, state.upperBeziers[1].p1) THEN << 0, "p1" >>
  ELSE IF Near(p, state.upperBeziers[1].p2) THEN << 0, "p2" >>
  ELSE IF Near(p, state.upperBeziers[2].p0) THEN << 0, "p2" >>
  ELSE IF Near(p, state.upperBeziers[2].p1) THEN << 1, "p1" >>
  ELSE << >>

\* the drag of onMouseMoveComparison: the dragged control point follows the
\* mouse position ballPt (the hit test grabs the junction arc0.p2 or the
\* control point p1 of an arc, nothing else)
DragTo(state, ballPt) ==
  LET r == PtNorm(ballPt)
      isJunction == state.dragArcIdx = 0 /\ state.dragPtKey = "p2"
  IN  IF isJunction
        THEN LET p == IF 100 * r > 99 * ViewPI
                        THEN PtToRadius(ballPt, r, 99, 100) ELSE ballPt
             IN  syncLowerBeziersFor(
                   updateJunctionFor([state EXCEPT !.upperBeziers[1].p2 = p]))
        ELSE LET p == IF 100 * r > 95 * ViewPI
                        THEN PtToRadius(ballPt, r, 95, 100) ELSE ballPt
             IN  syncLowerBeziersFor(
                   [state EXCEPT !.upperBeziers[state.dragArcIdx + 1].p1 = p])

\* the view after setMode('interactive-comparison')
ComparisonView ==
  draw([ mode |-> "interactive-comparison",
         leftDisk |-> createDiskState(FALSE),
         rightDisk |-> createDiskState(TRUE),
         activeHalf |-> "null" ])

\* the view as constructed: no disks yet
CrossSectionView == [ mode |-> "loop" ]

\* the animation classes as constructed
AnimationInit ==
  /\ controller = AnimationController
  /\ animator = LoopAnimator
  /\ observed = NothingObserved
  /\ view = CrossSectionView

Init ==
  /\ axis \in Axes
  /\ numSamples \in 1..MaxN
  /\ loop = NoLoop
  /\ contracted = NoPoints
  /\ prevContracted = NoPoints
  /\ lift = NoLift
  /\ call = NoCall
  /\ AnimationInit

\* generateLoop(axis, totalAngle, numSamples)
GenerateLoop ==
  \E totalAngle \in TotalAngles :
    /\ loop' = generateLoop(axis, totalAngle, numSamples)
    /\ lift' = NoLift
    /\ UNCHANGED << axis, numSamples, contracted, prevContracted, call >>
    /\ UNCHANGED animationVars

\* contractedLoopPoints(axis, s, numSamples)
ContractLoop ==
  \E s \in SValues :
    /\ contracted' = [s |-> s, points |-> contractedLoopPoints(axis, s, numSamples)]
    /\ prevContracted' = contracted
    /\ lift' = NoLift
    /\ UNCHANGED << axis, numSamples, loop, call >>
    /\ UNCHANGED animationVars

\* liftPath(loop.points), of a loop generated before any contraction
LiftLoop ==
  /\ loop # NoLoop
  /\ contracted = NoPoints
  /\ lift' = [of |-> "loop", input |-> loop.points, path |-> liftPath(loop.points)]
  /\ UNCHANGED << axis, numSamples, loop, contracted, prevContracted, call >>
  /\ UNCHANGED animationVars

\* liftPath(contractedLoopPoints(...)), of a contraction made before any loop
LiftContracted ==
  /\ contracted # NoPoints
  /\ loop = NoLoop
  /\ lift' = [of |-> "contracted", input |-> contracted.points,
              path |-> liftPath(contracted.points)]
  /\ UNCHANGED << axis, numSamples, loop, contracted, prevContracted, call >>
  /\ UNCHANGED animationVars

\* liftPath of a hand-made path, in a session that called nothing yet
LiftPoints ==
  /\ loop = NoLoop
  /\ contracted = NoPoints
  /\ lift = NoLift
  /\ \E so3Points \in HandPaths(vec3Normalize(axis)) :
       lift' = [of |-> "points", input |-> so3Points, path |-> liftPath(so3Points)]
  /\ UNCHANGED << axis, numSamples, loop, contracted, prevContracted, call >>
  /\ UNCHANGED animationVars

Next ==
  \/ GenerateLoop
  \/ ContractLoop
  \/ LiftLoop
  \/ LiftContracted
  \/ LiftPoints

Spec == Init /\ [][Next]_vars

\* The densely sampled sessions: sample counts above MaxN that keep every
\* sample angle on the grid; a session generates loops and lifts them.
DenseSamples == { n \in (MaxN + 1)..MaxDense : ONE % (2 * AxisScale * n) = 0 }

InitDense ==
  /\ axis \in Axes
  /\ numSamples \in DenseSamples
  /\ loop = NoLoop
  /\ contracted = NoPoints
  /\ prevContracted = NoPoints
  /\ lift = NoLift
  /\ call = NoCall
  /\ AnimationInit

NextDense ==
  \/ GenerateLoop
  \/ LiftLoop

SpecDense == InitDense /\ [][NextDense]_vars

\* the densely sampled contractions
NextDenseContraction == ContractLoop

SpecDenseContraction == InitDense /\ [][NextDenseContraction]_vars

\* The sessions on single ball points: calls of the so3.ts functions with
\* points of the requested axis line, at the radii k*PI/SDen on either side,
\* with angles m*PI/SDen and with the unit quaternions of half angle
\* k*PI/(2*SDen) about the axis.
BallAxes == Axes \cup { [x |-> 0, y |-> -1, z |-> 0] }

Radii == { (k * PI) \div SDen : k \in 0..SDen }

BallPoints(a) ==
  { vec3Scale(vec3Normalize(a), r) : r \in Radii }
    \cup { vec3Scale(vec3Negate(vec3Normalize(a)), r) : r \in Radii }

BallAngles ==
  { (m * PI) \div SDen : m \in (-(MaxHalfTurns * SDen))..(MaxHalfTurns * SDen) }

UnitQuaternions(a) ==
  { Quat((k * PI) \div (2 * SDen), vec3Normalize(a)) : k \in 0..(4 * SDen - 1) }

InitBall ==
  /\ axis \in BallAxes
  /\ numSamples = 1
  /\ loop = NoLoop
  /\ contracted = NoPoints
  /\ prevContracted = NoPoints
  /\ lift = NoLift
  /\ call = NoCall
  /\ AnimationInit

\* axisAngleToPoint(axis, angle)
AxisAngleToPoint ==
  /\ \E angle \in BallAngles :
       call' = [op |-> "axisAngleToPoint", angle |-> angle,
                out |-> axisAngleToPoint(axis, angle)]
  /\ UNCHANGED << axis, numSamples, loop, contracted, prevContracted, lift >>
  /\ UNCHANGED animationVars

\* canonicalize(p)
Canonicalize ==
  /\ \E p \in BallPoints(axis) :
       call' = [op |-> "canonicalize", p |-> p, out |-> canonicalize(p)]
  /\ UNCHANGED << axis, numSamples, loop, contracted, prevContracted, lift >>
  /\ UNCHANGED animationVars

\* compose(a, b)
Compose ==
  /\ \E a \in BallPoints(axis), b \in BallPoints(axis) :
       call' = [op |-> "compose", a |-> a, b |-> b, out |-> compose(a, b)]
  /\ UNCHANGED << axis, numSamples, loop, contracted, prevContracted, lift >>
  /\ UNCHANGED animationVars

\* geodesicDistance(a, b)
GeodesicDistance ==
  /\ \E a \in BallPoints(axis), b \in BallPoints(axis) :
       call' = [op |-> "geodesicDistance", a |-> a, b |-> b,
                out |-> geodesicDistance(a, b)]
  /\ UNCHANGED << axis, numSamples, loop, contracted, prevContracted, lift >>
  /\ UNCHANGED animationVars

\* sameRotation(a, b)
SameRotation ==
  /\ \E a \in BallPoints(axis), b \in BallPoints(axis) :
       call' = [op |-> "sameRotation", a |-> a, b |-> b, out |-> sameRotation(a, b)]
  /\ UNCHANGED << axis, numSamples, loop, contracted, prevContracted, lift >>
  /\ UNCHANGED animationVars

\* doubleCoverMap(q)
DoubleCoverMap ==
  /\ \E q \in UnitQuaternions(axis) :
       call' = [op |-> "doubleCoverMap", q |-> q, out |-> doubleCoverMap(q)]
  /\ UNCHANGED << axis, numSamples, loop, contracted, prevContracted, lift >>
  /\ UNCHANGED animationVars

NextBall ==
  \/ AxisAngleToPoint
  \/ Canonicalize
  \/ Compose
  \/ GeodesicDistance
  \/ SameRotation
  \/ DoubleCoverMap

SpecBall == InitBall /\ [][NextBall]_vars

\* The sessions on the stateless path functions: the single-sample evaluators
\* at the progress i/N of a sample index i and the diameter path, for the
\* requested axis and sample count.
\* getLoopPoint(axis, totalAngle, i / numSamples)
GetLoopPoint ==
  /\ \E totalAngle \in TotalAngles, i \in 0..numSamples :
       call' = [op |-> "getLoopPoint", totalAngle |-> totalAngle, i |-> i,
                out |-> getLoopPoint(axis, totalAngle, Progress(i, numSamples))]
  /\ UNCHANGED << axis, numSamples, loop, contracted, prevContracted, lift >>
  /\ UNCHANGED animationVars

\* getLoopQuaternion(axis, totalAngle, i / numSamples)
GetLoopQuaternion ==
  /\ \E totalAngle \in TotalAngles, i \in 0..numSamples :
       call' = [op |-> "getLoopQuaternion", totalAngle |-> totalAngle, i |-> i,
                out |-> getLoopQuaternion(axis, totalAngle, Progress(i, numSamples))]
  /\ UNCHANGED << axis, numSamples, loop, contracted, prevContracted, lift >>
  /\ UNCHANGED animationVars

\* generateDiameterPath(axis, numSamples)
GenerateDiameterPath ==
  /\ call' = [op |-> "generateDiameterPath",
              out |-> generateDiameterPath(axis, numSamples)]
  /\ UNCHANGED << axis, numSamples, loop, contracted, prevContracted, lift >>
  /\ UNCHANGED animationVars

\* the stage counts whose parameters i/(numStages - 1) are on the grid of the
\* contraction parameters k/SDen, and the single stage
StageCounts == { 1 } \cup { d + 1 : d \in { e \in 1..SDen : SDen % e = 0 } }

\* contractionStages(axis, numStages, numSamples)
ContractionStages ==
  /\ \E numStages \in StageCounts :
       call' = [op |-> "contractionStages", numStages |-> numStages,
                out |-> contractionStages(axis, numStages, numSamples)]
  /\ UNCHANGED << axis, numSamples, loop, contracted, prevContracted, lift >>
  /\ UNCHANGED animationVars

NextScrub ==
  \/ GetLoopPoint
  \/ GetLoopQuaternion
  \/ GenerateDiameterPath
  \/ ContractionStages

SpecScrub == Init /\ [][NextScrub]_vars

\* The interpolation sessions: slerp and slerpLong between two unit
\* quaternions of half angle k*PI/SDen about the requested axis, at the
\* fractions 0, 1/2 and 1.
SlerpQuaternions(a) ==
  { Quat((k * PI) \div SDen, vec3Normalize(a)) : k \in 0..(2 * SDen - 1) }

Fractions == { 0, ONE \div 2, ONE }

\* Quaternion.slerp(a, b, t)
Slerp ==
  /\ \E a \in SlerpQuaternions(axis), b \in SlerpQuaternions(axis), t \in Fractions :
       call' = [op |-> "slerp", a |-> a, b |-> b, t |-> t, out |-> slerp(a, b, t)]
  /\ UNCHANGED << axis, numSamples, loop, contracted, prevContracted, lift >>
  /\ UNCHANGED animationVars

\* Quaternion.slerpLong(a, b, t)
SlerpLong ==
  /\ \E a \in SlerpQuaternions(axis), b \in SlerpQuaternions(axis), t \in Fractions :
       call' = [op |-> "slerpLong", a |-> a, b |-> b, t |-> t,
                out |-> slerpLong(a, b, t)]
  /\ UNCHANGED << axis, numSamples, loop, contracted, prevContracted, lift >>
  /\ UNCHANGED animationVars

NextSlerp ==
  \/ Slerp
  \/ SlerpLong

SpecSlerp == InitBall /\ [][NextSlerp]_vars

\* The sessions on the AnimationController alone (no callback is set): every
\* method is called with inputs inside and outside its clamping range, and
\* onStartContraction is the handler of the "start contraction" button.
SpeedInputs == { MinSpeed - 1, MinSpeed, DefaultSpeed, MaxSpeed, MaxSpeed + 1 }
ProgressInputs == { -1, ProgressOne \div 2, ProgressOne, ProgressOne + 1 }
ParamInputs == { -1, ParamOne \div 2, ParamOne, ParamOne + 1 }
Modes == { "loop", "contraction", "comparison" }

Play ==
  /\ controller' = play(controller)
  /\ observed' = [observed EXCEPT !.started = FALSE]
  /\ UNCHANGED << animator, view >>
  /\ UNCHANGED sessionVars

Pause ==
  /\ controller' = pause(controller)
  /\ observed' = Interrupted(observed)
  /\ UNCHANGED << animator, view >>
  /\ UNCHANGED sessionVars

Toggle ==
  /\ controller' = toggle(controller)
  /\ observed' = Interrupted(observed)
  /\ UNCHANGED << animator, view >>
  /\ UNCHANGED sessionVars

Reset ==
  /\ controller' = AnimationController_reset(controller)
  /\ observed' = Interrupted(observed)
  /\ UNCHANGED << animator, view >>
  /\ UNCHANGED sessionVars

SetSpeed ==
  \E speed \in SpeedInputs :
    /\ controller' = setSpeed(controller, speed)
    /\ observed' = [observed EXCEPT !.started = FALSE]
    /\ UNCHANGED << animator, view >>
    /\ UNCHANGED sessionVars

SetProgress ==
  \E t \in ProgressInputs :
    /\ controller' = setProgress(controller, t)
    /\ observed' = Interrupted(observed)
    /\ UNCHANGED << animator, view >>
    /\ UNCHANGED sessionVars

SetMode ==
  \E mode \in Modes :
    /\ controller' = setMode(controller, mode)
    /\ observed' = Interrupted(observed)
    /\ UNCHANGED << animator, view >>
    /\ UNCHANGED sessionVars

SetContractionParam ==
  \E s \in ParamInputs :
    /\ controller' = setContractionParam(controller, s)
    /\ observed' = Interrupted(observed)
    /\ UNCHANGED << animator, view >>
    /\ UNCHANGED sessionVars

StartContraction ==
  /\ controller' = startContraction(controller)
  /\ observed' = Interrupted(observed)
  /\ UNCHANGED << animator, view >>
  /\ UNCHANGED sessionVars

\* controls.onStartContraction: setMode('contraction'); startContraction(); play()
onStartContraction ==
  /\ controller' = play(startContraction(setMode(controller, "contraction")))
  /\ observed' = [observed EXCEPT !.auto = TRUE, !.started = TRUE,
                                  !.cycles = 0, !.step = 0]
  /\ UNCHANGED << animator, view >>
  /\ UNCHANGED sessionVars

\* update(dt) with dt > 0
Update ==
  \E dt \in 1..MaxDt :
    /\ controller' = AnimationController_update(controller, dt)
    /\ observed' =
         IF observed.auto
           THEN [observed EXCEPT
                   !.started = FALSE,
                   !.cycles = IF ~LoopCompletes(controller, dt) THEN @
                              ELSE IF @ < MaxCycles THEN @ + 1 ELSE MaxCycles,
                   !.step = controller'.contractionParam
                              - controller.contractionParam]
           ELSE [observed EXCEPT !.started = FALSE]
    /\ UNCHANGED << animator, view >>
    /\ UNCHANGED sessionVars

NextController ==
  \/ Play
  \/ Pause
  \/ Toggle
  \/ Reset
  \/ SetSpeed
  \/ SetProgress
  \/ SetMode
  \/ SetContractionParam
  \/ StartContraction
  \/ onStartContraction
  \/ Update

\* the application's default axis, with the animation classes as constructed
InitController ==
  /\ Init
  /\ axis = vec3(1, 0, 0)
  /\ numSamples = 1

SpecController == InitController /\ [][NextController]_vars

\* the render loop keeps calling update
SpecControllerFair == SpecController /\ WF_vars(Update)

\* The playback of a loop as main.ts wires it in 'loop' mode: the controls
\* set the speed and the loop, the play and reset buttons act on the
\* controller, and every frame of the render loop updates the controller,
\* whose onProgressChange callback updates the LoopAnimator.
LoopAngles == { 2 * PI, 4 * PI }

InitPlayback ==
  /\ axis = vec3(1, 0, 0)
  /\ numSamples = 1
  /\ loop = NoLoop
  /\ contracted = NoPoints
  /\ prevContracted = NoPoints
  /\ lift = NoLift
  /\ call = NoCall
  /\ controller = AnimationController
  /\ animator = setLoop(LoopAnimator, axis, 2 * PI)
  /\ observed = NothingObserved
  /\ view = CrossSectionView

\* what the observer has counted once the loop was set again and
\* onProgressChange(0) was called on it
ObservedAfterSetLoop(a) ==
  [NothingObserved EXCEPT !.shown = JumpsShown(a, 0)]

\* controls.onChange: setSpeed, then switchMode with mode 'loop'
onChange ==
  \E speed \in SpeedInputs, totalAngle \in LoopAngles :
    LET a == setLoop(LoopAnimator_reset(animator), axis, totalAngle)
    IN  /\ controller' = AnimationController_reset(setSpeed(controller, speed))
        /\ animator' = LoopAnimator_update(a, 0)
        /\ observed' = ObservedAfterSetLoop(a)
        /\ UNCHANGED << sessionVars, view >>

\* controls.onPlayPause
onPlayPause ==
  /\ controller' = toggle(controller)
  /\ UNCHANGED << animator, observed, view >>
  /\ UNCHANGED sessionVars

\* controls.onReset in 'loop' mode
onReset ==
  LET a == LoopAnimator_update(animator, 0)
  IN  /\ controller' = pause(AnimationController_reset(controller))
      /\ animator' = setLoop(LoopAnimator_reset(a), animator.axis, animator.totalAngle)
      /\ observed' = NothingObserved
      /\ UNCHANGED << sessionVars, view >>

\* sceneManager.onUpdate: one frame of the render loop
onUpdate ==
  \E dt \in 1..MaxDt :
    LET c == AnimationController_update(controller, dt)
        shown == JumpsShown(animator, c.progress)
    IN  /\ controller.playing
        /\ controller' = c
        /\ animator' = LoopAnimator_update(animator, c.progress)
        /\ observed' =
             IF LoopCompletes(controller, dt)
               THEN [observed EXCEPT
                       !.lastPass = observed.shown,
                       !.shown = shown,
                       !.passes = IF @ < MaxPasses THEN @ + 1 ELSE MaxPasses]
               ELSE [observed EXCEPT !.shown = @ \o shown]
        /\ UNCHANGED << sessionVars, view >>

NextPlayback ==
  \/ onChange
  \/ onPlayPause
  \/ onReset
  \/ onUpdate

SpecPlayback == InitPlayback /\ [][NextPlayback]_vars

\* The comparison mode of the CrossSectionView: the mouse is pressed on a
\* button or on a point of one half, moved to a point, released (or leaves
\* the canvas), and pending animation frames run in between.  A session has
\* up to MaxPresses mouse presses.
MousePoints ==
  { Pt(0, 0), Pt((3 * ViewPI) \div 10, (4 * ViewPI) \div 10),
    Pt((18 * ViewPI) \div 25, (24 * ViewPI) \div 25) }

\* where the mouse is pressed on a disk: on a mouse point or on a handle
DownPoints(state) ==
  MousePoints \cup { state.upperBeziers[1].p1, state.upperBeziers[1].p2,
                     state.upperBeziers[2].p0, state.upperBeziers[2].p1 }

Halves == { "left", "right" }

DiskOf(v, half) == IF half = "left" THEN v.leftDisk ELSE v.rightDisk

WithDisk(v, half, state) ==
  IF half = "left" THEN [v EXCEPT !.leftDisk = state]
  ELSE [v EXCEPT !.rightDisk = state]

InitComparison ==
  /\ axis = vec3(1, 0, 0)
  /\ numSamples = 1
  /\ loop = NoLoop
  /\ contracted = NoPoints
  /\ prevContracted = NoPoints
  /\ lift = NoLift
  /\ call = NoCall
  /\ controller = AnimationController
  /\ animator = LoopAnimator
  /\ observed = NothingObserved
  /\ view = ComparisonView

onMouseDownComparison ==
  \E half \in Halves :
    LET v == [view EXCEPT !.activeHalf = half]
        state == DiskOf(view, half)
    IN  /\ observed.presses < MaxPresses
        /\ observed' = [observed EXCEPT !.presses = @ + 1]
        /\ \/ /\ state.contractAnimating
              /\ view' = v
           \/ /\ ~state.contractAnimating
              /\ "contract" \in state.clickRegions
              /\ view' = draw(WithDisk(v, half, startContractionFor(state)))
           \/ /\ ~state.contractAnimating
              /\ "reset" \in state.clickRegions
              /\ view' = draw(WithDisk(v, half, createDiskState(state.is4Pi)))
           \/ /\ ~state.contractAnimating
              /\ \E p \in DownPoints(state) :
                   LET hit == HitTest(state, p)
                   IN  view' =
                         IF hit = << >> THEN v
                         ELSE WithDisk(v, half,
                                [state EXCEPT !.dragging = TRUE,
                                              !.dragArcIdx = hit[1],
                                              !.dragPtKey = hit[2],
                                              !.contractDone = FALSE])
        /\ UNCHANGED << sessionVars, controller, animator >>

onMouseMoveComparison ==
  \E ballPt \in MousePoints :
    LET half == IF view.leftDisk.dragging THEN "left" ELSE "right"
    IN  /\ view.leftDisk.dragging \/ view.rightDisk.dragging
        /\ view' = draw(WithDisk(view, half, DragTo(DiskOf(view, half), ballPt)))
        /\ UNCHANGED << sessionVars, controller, animator, observed >>

\* the listener of 'mouseup' and of 'mouseleave'
onMouseUp ==
  LET half == IF view.activeHalf = "left" THEN "left" ELSE "right"
      disk == DiskOf(view, half)
  IN  /\ disk.dragging
      /\ view' = draw(WithDisk(view, half, [disk EXCEPT !.dragging = FALSE]))
      /\ UNCHANGED << sessionVars, controller, animator, observed >>

\* the requestAnimationFrame callback of a contracting disk
AnimationFrame ==
  \E half \in Halves :
    /\ DiskOf(view, half).contractAnimating
    /\ view' = draw(WithDisk(view, half, contractAnimFrameFor(DiskOf(view, half))))
    /\ UNCHANGED << sessionVars, controller, animator, observed >>

NextComparison ==
  \/ onMouseDownComparison
  \/ onMouseMoveComparison
  \/ onMouseUp
  \/ AnimationFrame

SpecComparison == InitComparison /\ [][NextComparison]_vars

\* ---------------------------------------------------------- grid exactness
\* No value of the state was rounded: every sample progress, sample angle and
\* half angle is on the grid, and every norm is an exact square root.
ExactNorm(v) == vec3Norm(v) * vec3Norm(v) = v.x * v.x + v.y * v.y + v.z * v.z

GridExact ==
  /\ ExactNorm(axis)
  /\ ExactNorm(vec3Normalize(axis)) /\ vec3Norm(vec3Normalize(axis)) = ONE
  /\ \A i \in 0..numSamples : (i * ONE) % numSamples = 0
  /\ loop # NoLoop =>
       /\ \A i \in 0..numSamples :
            (Progress(i, numSamples) * loop.totalAngle) % (2 * AxisScale * ONE) = 0
       /\ \A j \in DOMAIN loop.points : ExactNorm(loop.points[j])
  /\ contracted # NoPoints =>
       /\ ((ONE - contracted.s) * 4 * PI) % ONE = 0
       /\ \A i \in 0..numSamples :
            (Mul((ONE - contracted.s) * 4, PI) * Progress(i, numSamples))
              % (2 * AxisScale * ONE) = 0
       /\ \A j \in DOMAIN contracted.points : ExactNorm(contracted.points[j])
  /\ lift # NoLift => \A j \in DOMAIN lift.input : ExactNorm(lift.input[j])
  /\ call.op \in {"canonicalize"} => ExactNorm(call.p) /\ ExactNorm(call.out)
  /\ call.op \in {"compose", "geodesicDistance", "sameRotation"}
       => ExactNorm(call.a) /\ ExactNorm(call.b)
  /\ call.op \in {"axisAngleToPoint", "compose", "doubleCoverMap"} => ExactNorm(call.out)

\* ------------------------------------------------------------ the claims
Range(f) == { f[i] : i \in DOMAIN f }

Origin == vec3(0, 0, 0)

\* the loop in the state is generateLoop(axis, 2*PI*k, N) for a positive integer k
IsTurnLoop(k) == loop # NoLoop /\ k >= 1 /\ loop.totalAngle = 2 * k * PI

\* the indices i in 1..N whose step points[i-1] -> points[i] is longer than PI
LongSteps(points) ==
  { i \in 1..(Len(points) - 1) : Distance(points[i], points[i + 1]) > PI }

\* C1 as stated: for every non-zero axis, every k >= 1 and every N >= 1,
\* generateLoop(axis, 2*PI*k, N).jumpIndices has exactly k entries.
C1_JumpCountEveryN ==
  \A k \in 1..MaxHalfTurns :
    (IsTurnLoop(k) /\ vec3Norm(axis) > 0) => Len(loop.jumpIndices) = k

\* C1 amended: when the angular step 2*PI*k/N is below PI (N > 2k),
\* generateLoop(axis, 2*PI*k, N).jumpIndices has exactly k entries, and index i
\* is recorded iff the distance between points[i-1] and points[i] exceeds PI.
C1_JumpCount ==
  \A k \in 1..MaxHalfTurns :
    (IsTurnLoop(k) /\ vec3Norm(axis) > 0 /\ loop.numSamples > 2 * k)
      => /\ Len(loop.jumpIndices) = k
         /\ Range(loop.jumpIndices) = LongSteps(loop.points)

\* a 4*PI loop sampled finely enough, with its two jumps recorded
C1_Witness ==
  /\ IsTurnLoop(2)
  /\ vec3Norm(axis) > 0
  /\ loop.numSamples > 4
  /\ Len(loop.jumpIndices) = 2

\* the lift in the state is liftPath(generateLoop(axis, 2*PI*k, N).points)
IsTurnLift(k) == IsTurnLoop(k) /\ lift.of = "loop"

\* C2 as stated: for every non-zero axis and every N >= 1 the lift of the
\* 2*PI loop is not closed and is antipodal.
C2_OpenLiftEveryN ==
  (IsTurnLift(1) /\ vec3Norm(axis) > 0)
    => ~isLiftedPathClosed(lift.path) /\ isLiftedPathAntipodal(lift.path)

\* C2 amended: for every non-zero axis and every N >= 3 (angular step below
\* PI) the lift of the 2*PI loop is not closed and is antipodal: it starts at
\* +identity and its last quaternion is the negation of its first.
C2_OpenLift ==
  (IsTurnLift(1) /\ vec3Norm(axis) > 0 /\ loop.numSamples >= 3)
    => /\ ~isLiftedPathClosed(lift.path)
       /\ isLiftedPathAntipodal(lift.path)
       /\ approxEqual(lift.path[1], identity)
       /\ approxEqual(lift.path[Len(lift.path)], negate(lift.path[1]))

\* the lift of a 2*PI loop about a non-axis-aligned axis ends at -identity
C2_Witness ==
  /\ IsTurnLift(1)
  /\ loop.numSamples >= 3
  /\ axis = [x |-> 1, y |-> 2, z |-> 2]
  /\ approxEqual(lift.path[Len(lift.path)], negate(identity))

\* C3 as stated: for every non-zero axis and every N >= 1 the lift of the
\* 4*PI loop is closed.
C3_ClosedLiftEveryN ==
  (IsTurnLift(2) /\ vec3Norm(axis) > 0) => isLiftedPathClosed(lift.path)

\* C3 amended: for every non-zero axis and every N >= 5 (angular step below
\* PI) the lift of the 4*PI loop is closed: its last quaternion equals its
\* first, +identity.
C3_ClosedLift ==
  (IsTurnLift(2) /\ vec3Norm(axis) > 0 /\ loop.numSamples >= 5)
    => /\ isLiftedPathClosed(lift.path)
       /\ approxEqual(lift.path[1], identity)
       /\ approxEqual(lift.path[Len(lift.path)], identity)

\* the lift of a finely sampled 4*PI loop passes through -identity and closes
C3_Witness ==
  /\ IsTurnLift(2)
  /\ loop.numSamples >= 5
  /\ vec3Norm(axis) > 0
  /\ \E i \in DOMAIN lift.path : w(lift.path[i]) < 0
  /\ isLiftedPathClosed(lift.path)

\* the contraction in the state is contractedLoopPoints(axis, s, N)
IsContracted(s) == contracted # NoPoints /\ contracted.s = s

\* C4: contractedLoopPoints(axis, 0, N)[i] equals
\* generateLoop(axis, 4*PI, N).points[i] at every sample index i in 0..N, the
\* second half (i/N > 0.5) included.
C4_BoundaryAtZero ==
  (IsContracted(0) /\ IsTurnLoop(2))
    => \A j \in 1..(numSamples + 1) : contracted.points[j] = loop.points[j]

\* C5: for every axis, N >= 1 and s in [0, 1], the first and the last point
\* of contractedLoopPoints(axis, s, N) are the origin.
C5_BasepointPreserved ==
  contracted # NoPoints
    => /\ Len(contracted.points) = numSamples + 1
       /\ contracted.points[1] = Origin
       /\ contracted.points[numSamples + 1] = Origin

\* a partly contracted loop (0 < s < 1) that leaves the origin in between
C5_Witness ==
  /\ contracted # NoPoints
  /\ 0 < contracted.s /\ contracted.s < ONE
  /\ \E j \in DOMAIN contracted.points : contracted.points[j] # Origin
  /\ contracted.points[numSamples + 1] = Origin

\* C6: every one of the N+1 points of contractedLoopPoints(axis, 1, N) is the
\* zero vector.
C6_FullyContracted ==
  IsContracted(ONE)
    => /\ Len(contracted.points) = numSamples + 1
       /\ \A j \in DOMAIN contracted.points : contracted.points[j] = Origin

\* the contraction at s = 1 of a path that was away from the origin at s = 0
C6_Witness ==
  /\ IsContracted(ONE)
  /\ numSamples >= 3
  /\ prevContracted # NoPoints
  /\ prevContracted.s = 0
  /\ \E j \in DOMAIN prevContracted.points : prevContracted.points[j] # Origin

\* the largest norm among the sampled points
MaxNorm(points) ==
  LET norms == { vec3Norm(points[j]) : j \in DOMAIN points }
  IN  CHOOSE m \in norms : \A r \in norms : r <= m

\* the last two contractions are at parameters s1 <= s2, in that order
ContractedInOrder ==
  /\ contracted # NoPoints
  /\ prevContracted # NoPoints
  /\ prevContracted.s <= contracted.s

\* C7 as stated: for every pair 0 <= s1 <= s2 <= 1 the maximum norm of the
\* sampled points at s2 is not larger than the maximum norm at s1.
C7_MonotoneEveryPair ==
  ContractedInOrder
    => MaxNorm(contracted.points) <= MaxNorm(prevContracted.points)

\* C7 amended: for every pair 0.5 <= s1 <= s2 <= 1 the maximum norm of the
\* sampled points at s2 is not larger than the maximum norm at s1.
C7_MonotoneInside ==
  (ContractedInOrder /\ 2 * prevContracted.s >= ONE)
    => MaxNorm(contracted.points) <= MaxNorm(prevContracted.points)

\* two contractions at 0.5 <= s1 < s2 whose maximum norm strictly shrinks
C7_Witness ==
  /\ ContractedInOrder
  /\ 2 * prevContracted.s >= ONE
  /\ prevContracted.s < contracted.s
  /\ MaxNorm(contracted.points) < MaxNorm(prevContracted.points)
  /\ MaxNorm(contracted.points) > 0

\* C8: liftPath returns a sequence of the length of its input (empty for the
\* empty input) whose first quaternion has w >= 0 and in which every two
\* consecutive quaternions have a non-negative dot product.
C8_LiftContinuity ==
  lift # NoLift
    => /\ Len(lift.path) = Len(lift.input)
       /\ Len(lift.path) >= 1 => w(lift.path[1]) >= 0
       /\ \A i \in 1..(Len(lift.path) - 1) :
            dot(lift.path[i + 1], lift.path[i]) >= 0

\* a hand-made, undersampled path on which liftPath had to pick the negated
\* candidate
C8_Witness ==
  /\ lift.of = "points"
  /\ Len(lift.path) = 2
  /\ lift.path[2] = negate(fromSO3Point(lift.input[2]))
  /\ dot(fromSO3Point(lift.input[2]), lift.path[1]) < 0

\* C9: every point of generateLoop(axis, totalAngle, N).points has norm <= PI
\* for every real totalAngle, and every point of contractedLoopPoints(axis, s,
\* N) has norm <= PI for every s in [0, 1].
C9_BallInvariant ==
  /\ loop # NoLoop
       => \A j \in DOMAIN loop.points : vec3Norm(loop.points[j]) <= PI
  /\ contracted # NoPoints
       => \A j \in DOMAIN contracted.points : vec3Norm(contracted.points[j]) <= PI

\* a loop of negative total angle that touches the boundary, next to a
\* contraction that wraps through it
C9_Witness ==
  /\ loop # NoLoop
  /\ loop.totalAngle < 0
  /\ \E j \in DOMAIN loop.points : vec3Norm(loop.points[j]) = PI
  /\ contracted # NoPoints
  /\ 2 * contracted.s < ONE
  /\ LongSteps(contracted.points) # {}

\* C10: for 0.5 < s <= 1 the path contractedLoopPoints(axis, s, N) has no
\* boundary crossing: no two consecutive samples are more than PI apart and
\* every sample has norm strictly below PI.
C10_NoCrossingInside ==
  (contracted # NoPoints /\ 2 * contracted.s > ONE)
    => /\ LongSteps(contracted.points) = {}
       /\ \A j \in DOMAIN contracted.points : vec3Norm(contracted.points[j]) < PI

\* a contraction at 0.5 < s < 1 that still leaves the origin
C10_Witness ==
  /\ contracted # NoPoints
  /\ 2 * contracted.s > ONE
  /\ contracted.s < ONE
  /\ MaxNorm(contracted.points) > 0

\* C11: for every axis, every N >= 1 and every totalAngle = 2*PI*k with k any
\* integer (negative and zero included), generateLoop returns N + 1 points of
\* which the first and the last are the origin.
C11_EndpointsAtOrigin ==
  \A k \in (-MaxHalfTurns)..MaxHalfTurns :
    (loop # NoLoop /\ loop.totalAngle = 2 * k * PI)
      => /\ Len(loop.points) = numSamples + 1
         /\ loop.points[1] = Origin
         /\ loop.points[numSamples + 1] = Origin

\* a loop of total angle -4*PI (k = -2) that leaves the origin and returns
C11_Witness ==
  /\ loop # NoLoop
  /\ loop.totalAngle = -4 * PI
  /\ numSamples >= 3
  /\ \E j \in DOMAIN loop.points : loop.points[j] # Origin
  /\ loop.points[numSamples + 1] = Origin

\* C12: Quaternion.fromAxisAngle(n, 2*PI*k) has w = (-1)^k and a zero
\* imaginary part for every integer k, so the quaternion track of
\* generateLoop(axis, 2*PI, N) ends at -identity while its ball points end at
\* the origin.  (The imaginary part is sin(half) * n; where it is zero, w is
\* +1 or -1 and is given by its sign.)
C12_QuaternionParity ==
  \A k \in (-MaxHalfTurns)..MaxHalfTurns :
    (loop # NoLoop /\ loop.totalAngle = 2 * k * PI)
      => LET q == loop.quaternions[numSamples + 1]
         IN  /\ q = fromAxisAngle(vec3Normalize(axis), 2 * k * PI)
             /\ SinSgn(q.half) = 0
             /\ w(q) = (IF k % 2 = 0 THEN 1 ELSE -1)
             /\ k = 1 => /\ approxEqual(q, negate(identity))
                         /\ ~approxEqual(q, identity)
                         /\ loop.points[numSamples + 1] = Origin

\* a 2*PI loop about a non-axis-aligned axis: the quaternions end at
\* -identity, the ball points at the origin
C12_Witness ==
  /\ loop # NoLoop
  /\ loop.totalAngle = 2 * PI
  /\ axis = [x |-> -2, y |-> 1, z |-> -2]
  /\ numSamples >= 2
  /\ approxEqual(loop.quaternions[numSamples + 1], negate(identity))
  /\ loop.points[numSamples + 1] = Origin

\* C13: canonicalize is idempotent on every point, and for a boundary point p
\* (norm PI) canonicalize(p) = canonicalize(-p), the common value being the
\* member of {p, -p} whose first non-zero coordinate, in x, y, z order, is
\* positive.
C13_Canonical ==
  call.op = "canonicalize"
    => /\ canonicalize(call.out) = call.out
       /\ isOnBoundary(call.p)
            => /\ call.out = canonicalize(vec3Negate(call.p))
               /\ call.out \in { call.p, vec3Negate(call.p) }
               /\ Orientation(call.out) > 0

\* a boundary point with x = 0 and y < 0: canonicalize returns its antipode
C13_Witness ==
  /\ call.op = "canonicalize"
  /\ isOnBoundary(call.p)
  /\ call.p.x = 0 /\ call.p.y < 0
  /\ call.out = vec3Negate(call.p)
  /\ call.out # call.p

\* the point the claim composes p with: axisAngleToPoint(axis, -angle) for
\* {axis, angle} = pointToAxisAngle(p)
InversePoint(p) ==
  LET aa == pointToAxisAngle(p)
  IN  axisAngleToPoint(aa.axis, -aa.angle)

\* C14: for every ball point p (norm <= PI, the origin and the boundary
\* included), compose(p, axisAngleToPoint(axis, -angle)) with {axis, angle} =
\* pointToAxisAngle(p) is the identity: isIdentity holds of it.
C14_ComposeWithInverse ==
  (call.op = "compose" /\ vec3Norm(call.a) <= PI /\ call.b = InversePoint(call.a))
    => isIdentity(call.out)

\* a boundary point composed with its inverse, which is the point itself
C14_Witness ==
  /\ call.op = "compose"
  /\ isOnBoundary(call.a)
  /\ call.b = InversePoint(call.a)
  /\ call.b = call.a
  /\ call.out = Origin

\* an interior point composed with its inverse, the opposite point
C14_WitnessInterior ==
  /\ call.op = "compose"
  /\ 0 < vec3Norm(call.a) /\ vec3Norm(call.a) < PI
  /\ call.b = InversePoint(call.a)
  /\ call.b = vec3Negate(call.a)
  /\ call.out = Origin

\* C15: for a boundary point p, sameRotation(p, antipodalPartner(p)) is true
\* and geodesicDistance(p, antipodalPartner(p)) is 0; for an interior point p
\* with 0 < norm < PI, sameRotation(p, antipodalPartner(p)) is false.
C15_AntipodalPartner ==
  /\ (call.op = "sameRotation" /\ call.b = antipodalPartner(call.a))
       => /\ isOnBoundary(call.a) => call.out = TRUE
          /\ (0 < vec3Norm(call.a) /\ vec3Norm(call.a) < PI) => call.out = FALSE
  /\ (call.op = "geodesicDistance" /\ call.b = antipodalPartner(call.a)
         /\ isOnBoundary(call.a))
       => call.out = 0

\* sameRotation of a boundary point and its antipode, two distinct vectors
C15_Witness ==
  /\ call.op = "sameRotation"
  /\ isOnBoundary(call.a)
  /\ call.b = antipodalPartner(call.a)
  /\ call.b # call.a
  /\ call.out = TRUE

\* geodesicDistance of a boundary point and its antipode
C15_WitnessDistance ==
  /\ call.op = "geodesicDistance"
  /\ isOnBoundary(call.a)
  /\ call.b = antipodalPartner(call.a)
  /\ call.out = 0

\* sameRotation of an interior point and its opposite
C15_WitnessInterior ==
  /\ call.op = "sameRotation"
  /\ 0 < vec3Norm(call.a) /\ vec3Norm(call.a) < PI
  /\ call.b = antipodalPartner(call.a)
  /\ call.out = FALSE

\* C16: for every unit quaternion q, doubleCoverMap(q) and
\* doubleCoverMap(q.negate()) are the same ball point (equal coordinates), the
\* quaternions with w = 0 (rotation by PI) included.
C16_SamePoint ==
  call.op = "doubleCoverMap" => call.out = doubleCoverMap(negate(call.q))

\* Away from w = 0 the two images are equal; at w = 0 they are the two
\* antipodal boundary points PI*n and -PI*n.
C16_SamePointOffEquator ==
  call.op = "doubleCoverMap"
    => IF w(call.q) # 0
       THEN call.out = doubleCoverMap(negate(call.q))
       ELSE /\ isOnBoundary(call.out)
            /\ doubleCoverMap(negate(call.q)) = antipodalPartner(call.out)

\* C17: for every axis and angle, axisAngleToPoint(axis, angle) is n * r when
\* r <= PI and -n * (2*PI - r) otherwise, with n = normalize(axis) and r the
\* angle reduced modulo 2*PI into [0, 2*PI); angle = 0 yields the origin for
\* any axis.
C17_AxisAngleToPoint ==
  call.op = "axisAngleToPoint"
    => LET n == vec3Normalize(axis)
           r == call.angle % (2 * PI)
       IN  /\ 0 <= r /\ r < 2 * PI
           /\ call.out = IF r <= PI THEN vec3Scale(n, r)
                          ELSE vec3Scale(vec3Negate(n), 2 * PI - r)
           /\ call.angle = 0 => call.out = Origin

\* a negative angle beyond one turn that reduces into (PI, 2*PI): the point
\* lies on the side of -n
C17_Witness ==
  /\ call.op = "axisAngleToPoint"
  /\ call.angle < -2 * PI
  /\ call.angle % (2 * PI) > PI
  /\ vec3Norm(axis) > 0
  /\ call.out = vec3Scale(vec3Negate(vec3Normalize(axis)), 2 * PI - (call.angle % (2 * PI)))
  /\ call.out # Origin

\* the smallest sample index i in 0..N with i/N > (2j-1)/(2k)
FirstIndexPast(j, k, N) ==
  CHOOSE i \in 0..N :
    /\ i * 2 * k > (2 * j - 1) * N
    /\ \A m \in 0..N : m * 2 * k > (2 * j - 1) * N => i <= m

C19_LiftParity ==
  \A k \in 1..MaxHalfTurns :
    (IsTurnLift(k) /\ numSamples > 8 * k)
      => /\ isLiftedPathClosed(lift.path) <=> (k % 2 = 0)
         /\ isLiftedPathAntipodal(lift.path) <=> (k % 2 = 1)
         /\ isLiftedPathClosed(lift.path) # isLiftedPathAntipodal(lift.path)

\* the lift of a 6*PI loop (k = 3) within the contract: it passes through
\* -identity, comes back through +identity and ends at -identity
C19_Witness ==
  /\ IsTurnLift(3)
  /\ numSamples > 24
  /\ isLiftedPathAntipodal(lift.path)
  /\ ~isLiftedPathClosed(lift.path)
  /\ \E i \in 2..numSamples : approxEqual(lift.path[i], identity)

\* the lift of a 4*PI loop (k = 2) within the contract closes
C19_WitnessEven ==
  /\ IsTurnLift(2)
  /\ numSamples > 16
  /\ isLiftedPathClosed(lift.path)
  /\ ~isLiftedPathAntipodal(lift.path)

\* C20: for every axis, every totalAngle and every N with |totalAngle|/N < PI,
\* liftPath(generateLoop(axis, totalAngle, N).points)[i] equals
\* generateLoop(axis, totalAngle, N).quaternions[i] for every i in 0..N.
C20_LiftIsQuaternionTrack ==
  (lift.of = "loop" /\ Abs(loop.totalAngle) < numSamples * PI)
    => /\ Len(lift.path) = numSamples + 1
       /\ Len(loop.quaternions) = numSamples + 1
       /\ \A j \in 1..(numSamples + 1) :
            approxEqual(lift.path[j], loop.quaternions[j])

\* the lift of a loop of negative total angle beyond one turn, on which
\* liftPath kept the negated candidate at some sample
C20_Witness ==
  /\ lift.of = "loop"
  /\ loop.totalAngle < -2 * PI
  /\ Abs(loop.totalAngle) < numSamples * PI
  /\ vec3Norm(axis) > 0
  /\ \E j \in 2..(numSamples + 1) :
       /\ approxEqual(lift.path[j], negate(fromSO3Point(lift.input[j])))
       /\ ~approxEqual(lift.path[j], fromSO3Point(lift.input[j]))
       /\ approxEqual(lift.path[j], loop.quaternions[j])


\* C21: for every axis, totalAngle, N and index i in 0..N, points[i] and
\* quaternions[i] of generateLoop(axis, totalAngle, N) are the same rotation:
\* Quaternion.fromSO3Point(points[i]) equals quaternions[i] or its negation.
C21_TracksInSync ==
  loop # NoLoop
    => /\ Len(loop.points) = Len(loop.quaternions)
       /\ \A j \in 1..(numSamples + 1) :
            \/ approxEqual(fromSO3Point(loop.points[j]), loop.quaternions[j])
            \/ approxEqual(fromSO3Point(loop.points[j]), negate(loop.quaternions[j]))

\* a loop beyond one turn on which some sample's ball point lifts to the
\* negation of the quaternion track and another to the track itself
C21_Witness ==
  /\ loop # NoLoop
  /\ Abs(loop.totalAngle) > 2 * PI
  /\ numSamples >= 3
  /\ \E j \in 1..(numSamples + 1) :
       /\ approxEqual(fromSO3Point(loop.points[j]), negate(loop.quaternions[j]))
       /\ ~approxEqual(fromSO3Point(loop.points[j]), loop.quaternions[j])
  /\ \E j \in 2..(numSamples + 1) :
       /\ approxEqual(fromSO3Point(loop.points[j]), loop.quaternions[j])
       /\ loop.points[j] # Origin


\* C22: for every axis, totalAngle, N >= 1 and i in 0..N,
\* getLoopPoint(axis, totalAngle, i/N) equals
\* generateLoop(axis, totalAngle, N).points[i] and
\* getLoopQuaternion(axis, totalAngle, i/N) equals
\* generateLoop(axis, totalAngle, N).quaternions[i].
C22_EvaluatorsAgree ==
  /\ call.op = "getLoopPoint"
       => call.out = generateLoop(axis, call.totalAngle, numSamples).points[call.i + 1]
  /\ call.op = "getLoopQuaternion"
       => call.out = generateLoop(axis, call.totalAngle, numSamples).quaternions[call.i + 1]

\* getLoopPoint in the wrapped part of a loop about a non-unit axis: a point
\* on the side of -n
C22_Witness ==
  /\ call.op = "getLoopPoint"
  /\ axis = [x |-> 0, y |-> 0, z |-> 3]
  /\ call.totalAngle = 4 * PI
  /\ 0 < call.i /\ call.i < numSamples
  /\ call.out.z < 0
  /\ call.out = generateLoop(axis, call.totalAngle, numSamples).points[call.i + 1]

\* getLoopQuaternion at an inner sample with w < 0
C22_WitnessQuaternion ==
  /\ call.op = "getLoopQuaternion"
  /\ 0 < call.i /\ call.i < numSamples
  /\ w(call.out) < 0
  /\ call.out = generateLoop(axis, call.totalAngle, numSamples).quaternions[call.i + 1]


\* C23: for every axis, every even N with angular step 4*PI/N < PI and every
\* s with 0 <= s < 0.5, contractedLoopPoints(axis, s, N) has exactly two
\* jumps (consecutive samples more than PI apart), one during the outbound
\* half (it lands on a sample with t <= 0.5) and one during the return half
\* (it leaves a sample with t >= 0.5); the jump count is even.
C23_TwoJumps ==
  (contracted # NoPoints /\ numSamples % 2 = 0 /\ numSamples > 4
     /\ 0 <= contracted.s /\ 2 * contracted.s < ONE)
    => LET jumps == LongSteps(contracted.points)
       IN  /\ Cardinality(jumps) = 2
           /\ Cardinality(jumps) % 2 = 0
           /\ Cardinality({ i \in jumps : 2 * i <= numSamples }) = 1
           /\ Cardinality({ i \in jumps : 2 * (i - 1) >= numSamples }) = 1

\* a contraction at 0 < s < 0.5 on an even sample count whose excursion
\* passes the boundary without reaching the origin again at t = 0.5
C23_Witness ==
  /\ contracted # NoPoints
  /\ numSamples % 2 = 0 /\ numSamples > 4
  /\ 0 < contracted.s /\ 2 * contracted.s < ONE
  /\ vec3Norm(axis) > 0
  /\ contracted.points[numSamples \div 2 + 1] # Origin
  /\ Cardinality(LongSteps(contracted.points)) = 2


\* C24: for every axis and N, generateDiameterPath(axis, N) is pointwise equal
\* to generateLoop(axis, 2*PI, N).points, and for N > 2 it has exactly one
\* pair of consecutive samples more than PI apart.
C24_DiameterPath ==
  call.op = "generateDiameterPath"
    => /\ Len(call.out) = numSamples + 1
       /\ call.out = generateLoop(axis, 2 * PI, numSamples).points
       /\ numSamples > 2 => Cardinality(LongSteps(call.out)) = 1

\* a diameter path of more than two samples about a non-unit axis, with its
\* one jump and samples on both sides of the origin
C24_Witness ==
  /\ call.op = "generateDiameterPath"
  /\ numSamples > 2
  /\ axis = [x |-> 0, y |-> 0, z |-> 3]
  /\ \E j \in DOMAIN call.out : call.out[j].z > 0
  /\ \E j \in DOMAIN call.out : call.out[j].z < 0
  /\ Cardinality(LongSteps(call.out)) = 1


\* stageCount evenly spaced values in [0, 1] starting at s_0 = 0
EvenlySpaced(i, stageCount) ==
  IF stageCount = 1 THEN 0 ELSE (i * ONE) \div (stageCount - 1)

IsFinitePoint(p) == p.x # NaN /\ p.y # NaN /\ p.z # NaN

\* C25: for every axis, every N and every stageCount >= 1,
\* contractionStages(axis, stageCount, N) returns exactly stageCount stages,
\* stage i being contractedLoopPoints(axis, s_i, N) for stageCount evenly
\* spaced values s_i in [0, 1] starting at s_0 = 0, and every coordinate of
\* every returned point is a finite number.
C25_Stages ==
  call.op = "contractionStages"
    => /\ Len(call.out) = call.numStages
       /\ \A k \in 1..call.numStages :
            /\ call.out[k] = contractedLoopPoints(axis, EvenlySpaced(k - 1, call.numStages),
                                                  numSamples)
            /\ \A j \in DOMAIN call.out[k] : IsFinitePoint(call.out[k][j])

\* With two stages or more the stages are the contractions at
\* s_i = i/(stageCount - 1), from s = 0 to s = 1, and every point is finite;
\* with one stage every coordinate of the stage is NaN.
C25_StagesFromTwo ==
  call.op = "contractionStages"
    => IF call.numStages >= 2
       THEN /\ Len(call.out) = call.numStages
            /\ \A k \in 1..call.numStages :
                 /\ call.out[k] = contractedLoopPoints(axis, EvenlySpaced(k - 1, call.numStages),
                                                       numSamples)
                 /\ \A j \in DOMAIN call.out[k] : IsFinitePoint(call.out[k][j])
            /\ call.out[call.numStages] = contractedLoopPoints(axis, ONE, numSamples)
       ELSE /\ Len(call.out) = 1
            /\ \A j \in DOMAIN call.out[1] : ~IsFinitePoint(call.out[1][j])


\* C26: slerpLong never flips an endpoint: for every pair of unit quaternions
\* a, b, pairs with dot(a, b) < 0 included, slerpLong(a, b, 0) equals a and
\* slerpLong(a, b, 1) equals b itself (never -b), whereas slerp(a, b, 1)
\* equals -b when dot(a, b) < 0.
C26_NoEndpointFlip ==
  /\ (call.op = "slerpLong" /\ call.t = 0) => approxEqual(call.out, call.a)
  /\ (call.op = "slerpLong" /\ call.t = ONE) => approxEqual(call.out, call.b)
  /\ (call.op = "slerp" /\ call.t = ONE /\ dot(call.a, call.b) < 0)
       => approxEqual(call.out, negate(call.b))

\* The end points as computed: slerpLong(a, b, 0) is a; slerpLong(a, b, 1) is
\* b when dot(a, b) >= 0 or a = -b, and -b when dot(a, b) < 0 otherwise;
\* slerp(a, b, 1) is -b when dot(a, b) < 0.
C26_EndpointsAsComputed ==
  /\ (call.op = "slerpLong" /\ call.t = 0) => approxEqual(call.out, call.a)
  /\ (call.op = "slerpLong" /\ call.t = ONE)
       => IF dot(call.a, call.b) >= 0 \/ approxEqual(call.a, negate(call.b))
          THEN approxEqual(call.out, call.b)
          ELSE approxEqual(call.out, negate(call.b))
  /\ (call.op = "slerp" /\ call.t = ONE /\ dot(call.a, call.b) < 0)
       => approxEqual(call.out, negate(call.b))


\* the axis (0, 0, 1) as a caller writes it
ZAxis == vec3(0, 0, 1)

CyclesToContract == (ParamOne \div ContractionStep) + 1

C28_StepsOfEight ==
  observed.auto =>
    /\ observed.step \in {0, ContractionStep}
    /\ controller.contractionParam \in 0..ParamOne
    /\ (controller.contractionParam = ParamOne) = (observed.cycles >= CyclesToContract)
    /\ controller.contracting = (observed.cycles < CyclesToContract)
    /\ controller.progress >= 0 /\ controller.progress < ProgressOne

\* C28 (amended), the values: from a click on "start contraction" on, while nothing but
\* update is called, contractionParam after c completed loop cycles is
\* min(1, 0.08 * c): it changes only at loop completions, by 0.08 at each
\* of the first 12 and by the remaining 0.04 at the 13th, stays within
\* [0, 1], is 1 exactly from the 13th completed cycle on, the controller
\* has then stopped contracting, and progress stays within [0, 1).
C28_AutoContraction ==
  observed.auto =>
    /\ controller.contractionParam =
         (IF observed.cycles < CyclesToContract
            THEN observed.cycles * ContractionStep ELSE ParamOne)
    /\ observed.step \in {0, ContractionStep, ParamOne % ContractionStep}
    /\ (observed.step = ParamOne % ContractionStep /\ observed.step # 0)
         => observed.cycles = CyclesToContract
    /\ controller.contractionParam \in 0..ParamOne
    /\ (controller.contractionParam = ParamOne) = (observed.cycles >= CyclesToContract)
    /\ controller.contracting = (observed.cycles < CyclesToContract)
    /\ controller.progress >= 0 /\ controller.progress < ProgressOne

\* witness: an auto-contraction that completed more loop cycles than the
\* contraction takes and is in the middle of the next one
C28_Witness ==
  /\ observed.auto /\ ~observed.started
  /\ observed.cycles > CyclesToContract
  /\ controller.contractionParam = ParamOne
  /\ ~controller.contracting
  /\ controller.progress > 0

\* C28, the completion itself: with the render loop calling update again
\* and again, an auto-contraction reaches contractionParam = 1 unless it is
\* interrupted or started again.
C28_Completes ==
  observed.auto ~> \/ ~observed.auto
                   \/ observed.started
                   \/ controller.contractionParam = ParamOne

\* C28 (amended): auto-contraction completes.  From a click on "start
\* contraction" on, while update keeps being called with dt > 0 and no other
\* method than update, play and setSpeed is called, contractionParam
\* increases only at loop completions, by 0.08 at each of the first 12 and
\* by the remaining 0.04 at the 13th, stays within [0, 1], reaches exactly 1
\* at the 13th completed loop cycle, the controller then stops contracting
\* and contractionParam stays 1, while progress stays within [0, 1).
C28_AutoContractionCompletes == []C28_AutoContraction /\ C28_Completes


\* ---------------------------------------------------------------------
\* C29: during continuous playback, every pass of the progress from 0 to 1
\* gives every entry of loop.jumpIndices to showAntipodalJump exactly once,
\* for the loop with one jump and for the loop with two jumps, at every
\* speed.
Count(seq, x) == Cardinality({ k \in 1..Len(seq) : seq[k] = x })

PassShowsEveryJumpOnce(pass) ==
  \A k \in 1..Len(animator.loop.jumpIndices) :
    Count(pass, animator.loop.jumpIndices[k]) = 1

C29_EveryPassShowsEveryJump ==
  observed.passes >= 1 => PassShowsEveryJumpOnce(observed.lastPass)


\* a frame never advances the sample index by more than the three samples
\* of the window around a jump index
SlowPlayback == controller.speed * MaxDt * LoopSamples <= 3 * ProgressOne

\* C29, what the code does at slow playback: the loop with two jumps shows
\* each jump once in every pass; the loop with one jump shows it in the
\* first pass after setLoop or reset and in no later pass.
C29_SlowPlayback ==
  (observed.passes >= 1 /\ SlowPlayback) =>
    IF Len(animator.loop.jumpIndices) >= 2
      THEN PassShowsEveryJumpOnce(observed.lastPass)
      ELSE IF observed.passes = 1
        THEN PassShowsEveryJumpOnce(observed.lastPass)
        ELSE observed.lastPass = << >>

\* the second pass of the loop with one jump, at slow playback
C29_SecondPass ==
  /\ observed.passes >= 2 /\ SlowPlayback
  /\ Len(animator.loop.jumpIndices) = 1
  /\ observed.lastPass = << >>

\* a pass of the loop with two jumps in which fast playback stepped over
\* the window of a jump
C29_SteppedOver ==
  /\ observed.passes = 1
  /\ Len(animator.loop.jumpIndices) = 2
  /\ ~PassShowsEveryJumpOnce(observed.lastPass)


\* ---------------------------------------------------------------------
\* C30: in interactive-comparison mode, after any sequence of mouse events
\* and reset clicks, the 2 pi (left) disk has junctionOnBoundary = true, its
\* junction point upperBeziers[0].p2 at radius pi and upperBeziers[1].p0
\* the negation of it, is neither contractAnimating nor contractDone and is
\* offered no contract button; the 4 pi (right) disk is the one whose
\* junction moves inside and which contracts (the witness).
C30_LeftDiskStuck ==
  LET state == view.leftDisk
      junc == state.upperBeziers[1].p2
  IN  /\ ~state.is4Pi
      /\ state.junctionOnBoundary
      /\ junc.x * junc.x + junc.y * junc.y = ViewPI * ViewPI
      /\ state.upperBeziers[2].p0 = PtNegate(junc)
      /\ ~state.contractAnimating
      /\ ~state.contractDone
      /\ "contract" \notin state.clickRegions

\* witness: the junction of the left disk was dragged away from (pi, 0) and
\* is being dragged, while the right disk, its junction moved inside, has
\* been contracted
C30_Witness ==
  /\ view.leftDisk.upperBeziers[1].p2 # Pt(ViewPI, 0)
  /\ view.leftDisk.dragging
  /\ view.leftDisk.dragArcIdx = 0 /\ view.leftDisk.dragPtKey = "p2"
  /\ view.rightDisk.contractDone
  /\ ~view.rightDisk.junctionOnBoundary

====
